---- MODULE Spec2Model ----
(***************************************************************************)
(* PII tokenization engine of NL2SQL_System: privacy/encoder.py,           *)
(* privacy/decoder.py and app/services/redis.py.                           *)
(*                                                                         *)
(* Text is a sequence of one-character strings.  A thread executes         *)
(* encode_query or decode_text one shared-memory access at a time; the     *)
(* three tiers of the token store (_token_store, the Redis pii: keys and   *)
(* the token file) and the file lock are shared by the threads.            *)
(***************************************************************************)
EXTENDS Integers, Sequences, FiniteSets, TLC

(***************************************************************************)
(* Bounds of the model.                                                    *)
(***************************************************************************)
\* words of an input text (a word is one character or one long run)
MaxWords == 2
\* spans one detection returns
MaxSpans == 2
\* characters of the long word: longer than the shortest token
LongLen == 18
\* calls one thread of the concurrent workload makes
MaxCalls == 1

Threads == {"t1", "t2"}
None == "None"

(***************************************************************************)
(* Characters.                                                             *)
(***************************************************************************)
HexDigits == <<"0", "1", "2", "3", "4", "5", "6", "7", "8", "9",
               "A", "B", "C", "D", "E", "F">>

HexChars == {HexDigits[i] : i \in 1..16}

\* the class [A-Z_] of the decoder's token pattern
UpperOrUnderscore ==
    {"A", "B", "C", "D", "E", "F", "G", "H", "I", "J", "K", "L", "M",
     "N", "O", "P", "Q", "R", "S", "T", "U", "V", "W", "X", "Y", "Z", "_"}

\* the characters input text is made of, with the code point used by the digest
CharCodes ==
    <<" ", "0", "1", "2", "3", "4", "5", "6", "7", "8", "9",
      "A", "B", "C", "D", "E", "F", "G", "H", "I", "J", "K", "L", "M",
      "N", "O", "P", "Q", "R", "S", "T", "U", "V", "W", "X", "Y", "Z",
      "[", "]", "_", "a", "b">>

Ord(c) == CHOOSE i \in 1..Len(CharCodes) : CharCodes[i] = c

(***************************************************************************)
(* Sequence helpers (Python slicing, str.replace).                         *)
(***************************************************************************)
\* s[a:b] of Python, 0-based, end-exclusive, clipped to the string
Slice(s, a, b) ==
    LET lo == IF a < 0 THEN 0 ELSE a
        hi == IF b > Len(s) THEN Len(s) ELSE b
    IN  IF hi <= lo THEN << >> ELSE SubSeq(s, lo + 1, hi)

\* whether pat occurs in s at 0-based offset i
OccursAt(s, pat, i) ==
    /\ i + Len(pat) <= Len(s)
    /\ \A k \in 1..Len(pat) : s[i + k] = pat[k]

RECURSIVE ReplaceFrom(_, _, _, _)
ReplaceFrom(s, pat, val, i) ==
    LET hits == {j \in i..(Len(s) - Len(pat)) : OccursAt(s, pat, j)}
    IN  IF hits = {} THEN Slice(s, i, Len(s))
        ELSE LET j == CHOOSE x \in hits : \A y \in hits : x <= y
             IN  Slice(s, i, j) \o val \o ReplaceFrom(s, pat, val, j + Len(pat))

\* str.replace(pat, val): every non-overlapping occurrence, left to right
StrReplace(s, pat, val) ==
    IF Len(pat) = 0 THEN s ELSE ReplaceFrom(s, pat, val, 0)

(***************************************************************************)
(* Entity types and tokens.                                                *)
(***************************************************************************)
PERSON == <<"P", "E", "R", "S", "O", "N">>
ORGANIZATION == <<"O", "R", "G", "A", "N", "I", "Z", "A", "T", "I", "O", "N">>
LOCATION == <<"L", "O", "C", "A", "T", "I", "O", "N">>
EMAIL_ADDRESS == <<"E", "M", "A", "I", "L", "_", "A", "D", "D", "R", "E", "S", "S">>
PHONE_NUMBER == <<"P", "H", "O", "N", "E", "_", "N", "U", "M", "B", "E", "R">>
IN_AADHAAR == <<"I", "N", "_", "A", "A", "D", "H", "A", "A", "R">>

PII_ENTITIES ==
    <<PERSON, ORGANIZATION, LOCATION, EMAIL_ADDRESS, PHONE_NUMBER, IN_AADHAAR>>

\* hexadecimal characters kept of the digest
HashLen == 8

\* Stand-in for hashlib.sha256(value.encode()): a deterministic 32-bit digest
\* of the characters of the value and their positions, kept as two 16-bit
\* halves (SHA-256 itself is not expressible here; like its 8-character
\* prefix, the digest is a function of the value alone and is not injective).
DigestInit == <<27145, 58983>>

\* what the character c at position i adds to the two halves
DigestStep(i, c) ==
    <<(Ord(c) * ((i * i * 131 + i * 2654 + 40503) % 65536)) % 65536,
      (Ord(c) * ((i * i * 977 + i * 31 + 7) % 65536) + i) % 65536>>

\* the digest of value[a..b], halving the range
RECURSIVE Digest(_, _, _)
Digest(value, a, b) ==
    IF a > b THEN DigestInit
    ELSE IF a = b THEN DigestStep(a, value[a])
    ELSE LET m == (a + b) \div 2
             l == Digest(value, a, m)
             r == Digest(value, m + 1, b)
         IN  <<(l[1] + 3 * r[1] + r[2]) % 65536, (l[2] + 5 * r[2] + l[1]) % 65536>>

HexOf16(n) ==
    <<HexDigits[((n \div 4096) % 16) + 1], HexDigits[((n \div 256) % 16) + 1],
      HexDigits[((n \div 16) % 16) + 1], HexDigits[(n % 16) + 1]>>

\* hash_obj.hexdigest()[:8].upper()
short_hash(value) ==
    LET h == Digest(value, 1, Len(value))
    IN  HexOf16(h[1]) \o HexOf16(h[2])

\* a token of one hexadecimal character less
ShortTokenHash(value, entity_type) ==
    <<"[">> \o entity_type \o <<"_">>
        \o SubSeq(short_hash(value), 1, HashLen - 1) \o <<"]">>

get_token_hash(value, entity_type) ==
    <<"[">> \o entity_type \o <<"_">> \o short_hash(value) \o <<"]">>

(***************************************************************************)
(* The decoder's token pattern  \[[A-Z_]+_[0-9A-F]{8}\]  and re.findall.   *)
(***************************************************************************)
\* length of the match of the pattern at 0-based offset i of s, 0 if none:
\* "[", a run of [A-Z_] that ends in "_", HashLen hex characters, "]"
MatchAt(s, i) ==
    IF i >= Len(s) \/ s[i + 1] # "[" THEN 0
    ELSE LET ends == {j \in (i + 3)..(Len(s) - HashLen - 1) :
                        /\ s[j] = "_"
                        /\ \A k \in (i + 2)..j : s[k] \in UpperOrUnderscore
                        /\ \A k \in (j + 1)..(j + HashLen) : s[k] \in HexChars
                        /\ s[j + HashLen + 1] = "]"}
         IN  IF ends = {} THEN 0
             ELSE (CHOOSE j \in ends : \A x \in ends : x <= j) + HashLen + 1 - i

RECURSIVE FindAllFrom(_, _)
FindAllFrom(s, i) ==
    LET hits == {j \in i..(Len(s) - 1) : MatchAt(s, j) > 0}
    IN  IF hits = {} THEN << >>
        ELSE LET j == CHOOSE x \in hits : \A y \in hits : x <= y
                 n == MatchAt(s, j)
             IN  <<Slice(s, j, j + n)>> \o FindAllFrom(s, j + n)

\* re.findall(token_pattern, text): the non-overlapping matches, left to right
FindTokens(s) == FindAllFrom(s, 0)

HasToken(s) == \E i \in 0..(Len(s) - 1) : MatchAt(s, i) > 0

(***************************************************************************)
(* CipherVault (privacy/config.py): authenticated symmetric encryption.    *)
(* A ciphertext records the plaintext, the key it was made under and the   *)
(* nonce of that encryption; decryption fails under any other key.         *)
(***************************************************************************)
KEY == "k1"
STALE_KEY == "k0"

encrypt_value(value, nonce) == [pt |-> value, key |-> KEY, iv |-> nonce]

\* whether decrypt_value returns (it raises otherwise)
decrypts(ciphertext) == ciphertext.key = KEY

decrypt_value(ciphertext) == ciphertext.pt

(***************************************************************************)
(* Inputs: texts made of words, and the spans a detection returns, which   *)
(* cover whole words.                                                      *)
(***************************************************************************)
RECURSIVE Repeat(_, _)
Repeat(c, n) == IF n <= 0 THEN << >> ELSE <<c>> \o Repeat(c, n - 1)

LongWord == Repeat("b", LongLen)

SeedValue == <<"a">>
SeedToken == get_token_hash(SeedValue, PERSON)
\* a token no store holds
UnknownToken == get_token_hash(<<"b">>, LOCATION)

Words == {SeedValue, LongWord, SeedToken}

\* entity types the modelled detections use, in the orders a detector may
\* list them (the regex detector: the order of its patterns)
TypeOrders == {<<PERSON, IN_AADHAAR>>, <<IN_AADHAAR, PERSON>>}

RECURSIVE Flatten(_)
Flatten(ws) == IF ws = << >> THEN << >> ELSE Head(ws) \o Flatten(Tail(ws))

\* character offset of the end of the k-th word
Offset(ws, k) == Len(Flatten(SubSeq(ws, 1, k)))

WordSeqs == UNION {[1..n -> Words] : n \in 0..MaxWords}

\* the score of a span analyzer.analyze returns (res.score) and the score the
\* regex detector gives every match
AnalyzerScore == "res.score"
RegexScore == "0.5"

Span(ty, a, b) ==
    [entity_type |-> ty, start |-> a, end |-> b, score |-> AnalyzerScore]

\* the entity types the regex detector has a pattern for, in the order of
\* its patterns
RegexPatterns == <<PHONE_NUMBER, EMAIL_ADDRESS, PERSON, ORGANIZATION, IN_AADHAAR>>

\* _regex_detect_pii(text), found being the spans of the text a recognizer
\* of their entity type would match: one entity, with the fixed score, for
\* every match of a pattern the detector has
RECURSIVE _regex_detect_pii(_)
_regex_detect_pii(found) ==
    IF found = << >> THEN << >>
    ELSE (IF \E i \in DOMAIN RegexPatterns : RegexPatterns[i] = Head(found).entity_type
          THEN <<[Head(found) EXCEPT !.score = RegexScore]>>
          ELSE << >>) \o _regex_detect_pii(Tail(found))

\* the matches of one pattern (re.finditer): ranges of whole words, not
\* empty, left to right and not overlapping
Matches(ws) ==
    {m \in UNION {[1..n -> (0..Len(ws)) \X (0..Len(ws))] : n \in 0..MaxSpans} :
        /\ \A i \in 1..Len(m) : m[i][1] < m[i][2]
        /\ \A i \in 1..(Len(m) - 1) : m[i][2] <= m[i + 1][1]}

SpansOfType(ws, ty, m) ==
    [i \in 1..Len(m) |-> Span(ty, Offset(ws, m[i][1]), Offset(ws, m[i][2]))]

\* what one detection may return: the matches of each entity type, type
\* after type, up to MaxSpans spans; spans of different types may overlap
Detections(ws) ==
    {SpansOfType(ws, o[1], mm[1]) \o SpansOfType(ws, o[2], mm[2]) :
        o \in TypeOrders,
        mm \in {p \in Matches(ws) \X Matches(ws) : Len(p[1]) + Len(p[2]) <= MaxSpans}}

\* the queries of the sequential workload: a text, the spans the engine's
\* analyze returns for it (results) and the spans of the regex detector, here
\* the same spans
WideQueries(n) ==
    UNION {{[text |-> Flatten(ws), results |-> d, regex |-> _regex_detect_pii(d)] :
                  d \in Detections(ws)} :
              ws \in {w \in WordSeqs : Len(w) <= n}}

\* the queries of the concurrent workload: at most one span each, and the
\* regex detector's spans differ from the engine's
NarrowQueries ==
    {[text |-> SeedValue, results |-> <<Span(PERSON, 0, 1)>>,
      regex |-> _regex_detect_pii(<<Span(IN_AADHAAR, 0, 1)>>)],
     [text |-> <<"b">>, results |-> <<Span(IN_AADHAAR, 0, 1)>>,
      regex |-> _regex_detect_pii(<< >>)]}

\* two values with the same digest, hence the same token for one entity type
FirstValue == <<"a", "b", "b", "0", "1">>
SecondValue == <<"a", "0", "a", "b", "a", "1", "a", "a">>

\* the queries of the collision workload: each value is one PERSON span
CollidingQueries ==
    {[text |-> v, results |-> <<Span(PERSON, 0, Len(v))>>,
      regex |-> _regex_detect_pii(<<Span(PERSON, 0, Len(v))>>)] : v \in {FirstValue, SecondValue}}

\* the text handed to decode_text besides the output of an encode_query: a
\* token twice, and a token no tier holds
DecodeTexts ==
    {SeedToken \o <<" ">> \o UnknownToken \o <<" ">> \o SeedToken}

\* a value of one character, the fifth of SeedToken's hash, and its token
JoinValue == <<SeedToken[Len(PERSON) + 7]>>
JoinToken == get_token_hash(JoinValue, LOCATION)

\* SeedToken with JoinToken in the place of that character, then SeedToken
SplitText ==
    SubSeq(SeedToken, 1, Len(PERSON) + 6) \o JoinToken
        \o SubSeq(SeedToken, Len(PERSON) + 8, Len(SeedToken))
        \o <<" ">> \o SeedToken

\* two tokens, one of them twice
PairText == JoinToken \o <<" ">> \o SeedToken \o <<" ">> \o JoinToken

\* the texts handed to decode_text in the decode workload
OrderTexts == DecodeTexts \cup {SplitText, PairText}

(***************************************************************************)
(* Tables: the rows of encode_results and the results of decode_results.   *)
(* A cell is a string or another value; a row is a list, a tuple or a dict *)
(* of cells (keys: the dict's keys, in order); a result is a list of rows  *)
(* or a mapping with the keys "columns" and "rows".                        *)
(***************************************************************************)
MaxRows == 2

Cell(is_str, val) == [str |-> is_str, val |-> val]
Row(kind, keys, cells) == [kind |-> kind, keys |-> keys, cells |-> cells]
ListRow(cells) == Row("list", << >>, cells)
Result(kind, columns, rows) == [kind |-> kind, columns |-> columns, rows |-> rows]

\* the strings of the cells with what a detection returns for them: no span,
\* one span, two adjacent spans, two overlapping spans
CellQueries ==
    {[text |-> <<"c">>, results |-> << >>, regex |-> _regex_detect_pii(<< >>)],
     [text |-> SeedValue, results |-> <<Span(PERSON, 0, 1)>>,
      regex |-> _regex_detect_pii(<<Span(PERSON, 0, 1)>>)],
     [text |-> <<"b", "a">>,
      results |-> <<Span(IN_AADHAAR, 0, 1), Span(PERSON, 1, 2)>>,
      regex |-> _regex_detect_pii(<<Span(IN_AADHAAR, 0, 1), Span(PERSON, 1, 2)>>)],
     [text |-> <<"a", "b">>,
      results |-> <<Span(PERSON, 0, 2), Span(IN_AADHAAR, 1, 2)>>,
      regex |-> _regex_detect_pii(<<Span(PERSON, 0, 2), Span(IN_AADHAAR, 1, 2)>>)]}

\* what detect_pii has to work with for the string val
QueryOf(val) ==
    IF \E q \in CellQueries : q.text = val
    THEN CHOOSE q \in CellQueries : q.text = val
    ELSE [text |-> val, results |-> << >>, regex |-> << >>]

Number == Cell(FALSE, <<"7">>)

TableRows ==
    {ListRow(<<Number, Cell(TRUE, SeedValue)>>),
     ListRow(<<Cell(TRUE, <<"c">>), Cell(TRUE, <<"b", "a">>)>>),
     ListRow(<<Cell(TRUE, <<"a", "b">>)>>),
     ListRow(<< >>)}

\* the arguments of encode_results: columns (not used) and up to n rows
Tables(n) ==
    {Result("list", << >>, rows) : rows \in UNION {[1..k -> TableRows] : k \in 0..n}}

Column == <<"n">>

\* results handed to decode_results that no encode_results returned: dict
\* rows, tuple rows, and lists whose later rows differ in type from the first
ForeignResults ==
    LET d == Row("dict", <<Column>>, <<Cell(TRUE, SeedToken)>>)
        l == ListRow(<<Cell(TRUE, SeedToken), Number>>)
        u == Row("tuple", << >>, <<Cell(TRUE, SeedToken)>>)
    IN  {Result("list", << >>, rows) :
            rows \in {<<d, d>>, <<d, l>>, <<l, d>>, <<u, u>>, <<l, u>>}}
        \cup {Result("mapping", <<Column>>, <<l>>)}

(***************************************************************************)
(* Session tokens (RedisService.set_token, get_token_user, delete_token).  *)
(***************************************************************************)
\* calls one thread makes in the session workload
MaxSessionCalls == 3

SessionTokens == {<<"s", "1">>, <<"s", "2">>}
UserIds == {"u1", "u2"}

\* what a method of RedisService returned
ReturnsTrue == <<"True">>
ReturnsFalse == <<"False">>
ReturnsNone == <<"None">>

(***************************************************************************)
(* Maps (Python dicts, the Redis keys, the JSON object of the token file). *)
(***************************************************************************)
EmptyMap == << >>

Has(m, k) == k \in DOMAIN m

\* m[k] = v
Put(m, k, v) == (k :> v) @@ m

\* m.get(k): the value in a sequence of one element, << >> for None
Get(m, k) == IF Has(m, k) THEN <<m[k]>> ELSE << >>

(***************************************************************************)
(* State.                                                                  *)
(***************************************************************************)
VARIABLES
    _analyzer,          \* encoder._analyzer: "None", "engine" or "fallback"
    _token_store,       \* encoder._token_store: token -> ciphertext
    connected,          \* redis_client.connected, set once by __init__
    redis_up,           \* whether the Redis server answers
    redis_pii,          \* the pii:<token> keys of the Redis server
    redis_tokens,       \* the token:<token> keys of the Redis server
    token_file,         \* .token_store.json: absent, partial (opened "w") or ok
    _TOKEN_FILE_LOCK,   \* the thread holding the lock, or "None"
    pc,                 \* where each thread is in its call
    frame,              \* the locals of each thread's call
    ret,                \* what each thread's last call returned
    ncalls,             \* calls each thread has made
    boot,               \* the tiers as the process found them
    workload,           \* "concurrent" or "sequential"
    session_state,      \* streamlit_app: st.session_state of one browser session
    run,                \* streamlit_app: where the script run is, and its locals
    can_login,          \* streamlit_app: whether get_jwt_token returns a token
    history_file        \* chat_history.json: absent, or the chats last saved

vars == <<_analyzer, _token_store, connected, redis_up, redis_pii, redis_tokens,
          token_file, _TOKEN_FILE_LOCK, pc, frame, ret, ncalls, boot, workload,
          session_state, run, can_login, history_file>>

\* the chat frontend
ui == <<session_state, run, can_login, history_file>>

\* what no step of an encode or decode call changes
env == <<connected, redis_up, redis_tokens, boot, workload, ui>>

tiers == <<_token_store, redis_pii, token_file>>

NoFile == [state |-> "absent", data |-> EmptyMap]
FileOf(m) == [state |-> "ok", data |-> m]

\* ciphertexts left by earlier runs of the process
SeedInFile == [pt |-> SeedValue, key |-> KEY, iv |-> <<"file", 0>>]
SeedInRedis == [pt |-> SeedValue, key |-> KEY, iv |-> <<"redis", 0>>]
SeedStale == [pt |-> SeedValue, key |-> STALE_KEY, iv |-> <<"file", 0>>]

\* the Redis server and the token file as earlier runs left them, and whether
\* the server answers the ping of RedisService.__init__
FreshDeployments ==
    {[redis_up |-> TRUE, redis_pii |-> EmptyMap, token_file |-> NoFile],
     [redis_up |-> FALSE, redis_pii |-> EmptyMap, token_file |-> NoFile]}

Deployments ==
    FreshDeployments \cup
    {[redis_up |-> TRUE, redis_pii |-> SeedToken :> SeedInRedis,
      token_file |-> FileOf(SeedToken :> SeedInFile)],
     [redis_up |-> TRUE, redis_pii |-> EmptyMap,
      token_file |-> FileOf(SeedToken :> SeedInFile)],
     [redis_up |-> FALSE, redis_pii |-> EmptyMap,
      token_file |-> FileOf(SeedToken :> SeedInFile)],
     [redis_up |-> FALSE, redis_pii |-> EmptyMap,
      token_file |-> FileOf(SeedToken :> SeedStale)]}

\* a Redis server that holds the mappings of SeedToken and JoinToken, or the
\* mapping of JoinToken only
JoinInRedis == [pt |-> JoinValue, key |-> KEY, iv |-> <<"redis", 1>>]

DecodeDeployments ==
    {[redis_up |-> TRUE,
      redis_pii |-> (SeedToken :> SeedInRedis) @@ (JoinToken :> JoinInRedis),
      token_file |-> NoFile],
     [redis_up |-> TRUE, redis_pii |-> JoinToken :> JoinInRedis,
      token_file |-> NoFile]}

\* no table
NoResult == [kind |-> "none", columns |-> << >>, rows |-> << >>]

Frame0 ==
    [op |-> "", text |-> << >>, results |-> << >>, regex |-> << >>,
     raised |-> FALSE, i |-> 1,
     encoded_text |-> << >>, mappings |-> << >>, token |-> << >>,
     encrypted_val |-> << >>, data |-> EmptyMap, caller |-> "",
     todo |-> {}, decoded_text |-> << >>, orig |-> << >>, wrote |-> {},
     result |-> NoResult, branch |-> "", row |-> 1, col |-> 1,
     row_out |-> << >>, rows_out |-> << >>]

Ret0 ==
    [op |-> "", text |-> << >>, results |-> << >>, value |-> << >>,
     mappings |-> << >>, orig |-> << >>, arg |-> NoResult,
     result |-> NoResult, raised |-> FALSE]

\* st.session_state before the script has run, and a script that is not
\* running
SessionState0 ==
    [chats |-> << >>, active_chat_id |-> None, is_processing |-> FALSE,
     jwt_token |-> None, insights |-> FALSE]

Run0 ==
    [pc |-> "idle", received_any_event |-> FALSE, errors |-> FALSE, answer |-> ""]

\* no browser session is open
NoFrontend ==
    /\ session_state = SessionState0
    /\ run = Run0
    /\ can_login = FALSE
    /\ history_file = << >>

\* the state after the modules are imported: RedisService.__init__ has set
\* connected, _analyzer is None and _token_store is empty
InitWith(w, deployments) ==
    /\ NoFrontend
    /\ workload = w
    /\ boot \in deployments
    /\ redis_up = boot.redis_up
    /\ connected = boot.redis_up
    /\ redis_pii = boot.redis_pii
    /\ redis_tokens = EmptyMap
    /\ token_file = boot.token_file
    /\ _analyzer = None
    /\ _token_store = EmptyMap
    /\ _TOKEN_FILE_LOCK = None
    /\ pc = [t \in Threads |-> "idle"]
    /\ frame = [t \in Threads |-> Frame0]
    /\ ret = [t \in Threads |-> Ret0]
    /\ ncalls = [t \in Threads |-> 0]

Init == InitWith("concurrent", Deployments)

InitCodec == InitWith("sequential", {d \in FreshDeployments : d.redis_up})

ActiveThreads ==
    IF workload \in {"sequential", "table", "decode"} THEN {"t1"} ELSE Threads

Queries ==
    IF workload = "sequential" THEN WideQueries(MaxWords)
    ELSE IF workload = "collision" THEN CollidingQueries
    ELSE NarrowQueries

\* whether thread t may make another call: the sequential and the collision
\* workload are one encode_query followed by one decode_text of its result,
\* the table workload one encode_results followed by one decode_results
MayCall(t, op) ==
    /\ t \in ActiveThreads
    /\ pc[t] = "idle"
    /\ IF workload \in {"sequential", "table", "collision"}
       THEN ncalls[t] = (IF op \in {"encode_query", "encode_results"} THEN 0 ELSE 1)
       ELSE IF workload = "session"
       THEN ncalls[t] < MaxSessionCalls
       ELSE ncalls[t] < MaxCalls

\* the Redis server stops answering (it does not come back in a run)
redis_outage ==
    /\ redis_up
    /\ redis_up' = FALSE
    /\ UNCHANGED <<_analyzer, tiers, _TOKEN_FILE_LOCK, pc, frame, ret, ncalls,
                   connected, redis_tokens, boot, workload, ui>>

(***************************************************************************)
(* encode_query.                                                           *)
(***************************************************************************)
RECURSIVE InsertByStart(_, _)
InsertByStart(sorted, x) ==
    IF sorted = << >> THEN <<x>>
    ELSE IF Head(sorted).start >= x.start
         THEN <<Head(sorted)>> \o InsertByStart(Tail(sorted), x)
         ELSE <<x>> \o sorted

RECURSIVE SortFrom(_, _)
SortFrom(acc, rest) ==
    IF rest = << >> THEN acc
    ELSE SortFrom(InsertByStart(acc, Head(rest)), Tail(rest))

\* the results in the order the detector gave them (encode_query without the
\* sort)
DetectorOrder(results) == results

\* results.sort(key=lambda x: x['start'], reverse=True): stable, so spans
\* with the same start keep the order the detector gave them
SortByStartReverse(results) == SortFrom(<< >>, results)

\* encoded_text[:start] + token + encoded_text[end:]
Substitute(encoded_text, start, end, token) ==
    Slice(encoded_text, 0, start) \o token
        \o Slice(encoded_text, end, Len(encoded_text))

\* the end of one iteration of the loop over results: the token replaces the
\* span in encoded_text and the mapping is appended
SpanDone(f) ==
    LET res == f.results[f.i]
    IN  [f EXCEPT
            !.encoded_text = Substitute(f.encoded_text, res.start, res.end, f.token),
            !.mappings = Append(f.mappings,
                [token |-> f.token, entity_type |-> res.entity_type,
                 original_len |-> res.end - res.start]),
            !.i = f.i + 1, !.token = << >>, !.encrypted_val = << >>,
            !.data = EmptyMap, !.caller = ""]

\* a detect_pii that lets the engine's answer stand when analyze raised
DetectEngineOnly(analyzer, raised, engine, regex) ==
    IF analyzer = "fallback" THEN regex ELSE engine

\* detect_pii once get_analyzer has returned: the regex detector's spans when
\* the analyzer is "fallback" or when analyzer.analyze raises, else the
\* spans analyze returns
detect_pii(analyzer, raised, engine, regex) ==
    IF analyzer = "fallback" \/ raised THEN regex ELSE engine

\* the frame after detect_pii returned and encode_query sorted the results
Detected(f, analyzer, raised) ==
    [f EXCEPT !.results = SortByStartReverse(
                              detect_pii(analyzer, raised, f.results, f.regex)),
              !.raised = raised /\ analyzer # "fallback"]

\* a caller enters encode_query(text): detect_pii calls get_analyzer, which
\* tests "_analyzer is None"; when it is not, detect_pii returns and
\* encode_query sorts the results
encode_query(t) ==
    /\ MayCall(t, "encode_query")
    /\ \E q \in Queries :
        LET f == [Frame0 EXCEPT !.op = "encode_query", !.text = q.text,
                                !.encoded_text = q.text,
                                !.results = q.results, !.regex = q.regex]
        IN  IF _analyzer = None
            THEN /\ frame' = [frame EXCEPT ![t] = f]
                 /\ pc' = [pc EXCEPT ![t] = "get_analyzer"]
            ELSE /\ \E raised \in BOOLEAN :
                        frame' = [frame EXCEPT ![t] = Detected(f, _analyzer, raised)]
                 /\ pc' = [pc EXCEPT ![t] = "store"]
    /\ ncalls' = [ncalls EXCEPT ![t] = ncalls[t] + 1]
    /\ ret' = [ret EXCEPT ![t] = Ret0]
    /\ UNCHANGED <<_analyzer, tiers, _TOKEN_FILE_LOCK, env>>

\* get_analyzer after "_analyzer is None" was true: the engine is built and
\* assigned, or building it raised and "fallback" is assigned; detect_pii
\* goes on with the analyzer returned
get_analyzer(t) ==
    /\ pc[t] = "get_analyzer"
    /\ \E loaded, raised \in BOOLEAN :
        /\ _analyzer' = IF loaded THEN "engine" ELSE "fallback"
        /\ frame' = [frame EXCEPT ![t] = Detected(frame[t], _analyzer', raised)]
    /\ pc' = [pc EXCEPT ![t] = "store"]
    /\ UNCHANGED <<tiers, _TOKEN_FILE_LOCK, ret, ncalls, env>>

\* encode_query: the loop is over and (encoded_text, mappings) is returned
encode_query_return(t) ==
    /\ pc[t] = "store"
    /\ frame[t].op = "encode_query"
    /\ frame[t].i > Len(frame[t].results)
    /\ ret' = [ret EXCEPT ![t] =
            [Ret0 EXCEPT !.op = "encode_query", !.text = frame[t].text,
                         !.results = frame[t].results,
                         !.value = frame[t].encoded_text,
                         !.mappings = frame[t].mappings]]
    /\ frame' = [frame EXCEPT ![t] = Frame0]
    /\ pc' = [pc EXCEPT ![t] = "idle"]
    /\ UNCHANGED <<_analyzer, tiers, _TOKEN_FILE_LOCK, ncalls, env>>

\* a store_token that keeps the entry a token already has
StoreKeepsFirst(t) ==
    /\ pc[t] = "store"
    /\ frame[t].i <= Len(frame[t].results)
    /\ LET res == frame[t].results[frame[t].i]
           original_value == Slice(frame[t].text, res.start, res.end)
           token == get_token_hash(original_value, res.entity_type)
           encrypted_val == encrypt_value(original_value, <<t, ncalls[t]>>)
       IN  /\ _token_store' = IF Has(_token_store, token) THEN _token_store
                              ELSE Put(_token_store, token, encrypted_val)
           /\ frame' = [frame EXCEPT ![t].token = token,
                                     ![t].encrypted_val = <<encrypted_val>>,
                                     ![t].wrote = {}]
    /\ pc' = [pc EXCEPT ![t] = "put"]
    /\ UNCHANGED <<_analyzer, redis_pii, token_file, _TOKEN_FILE_LOCK, ret, ncalls, env>>

\* a store_token that computes token and ciphertext and leaves _token_store
TokenWithoutStore(t) ==
    /\ pc[t] = "store"
    /\ frame[t].i <= Len(frame[t].results)
    /\ LET res == frame[t].results[frame[t].i]
           original_value == Slice(frame[t].text, res.start, res.end)
           token == get_token_hash(original_value, res.entity_type)
           encrypted_val == encrypt_value(original_value, <<t, ncalls[t]>>)
       IN  frame' = [frame EXCEPT ![t].token = token,
                                  ![t].encrypted_val = <<encrypted_val>>,
                                  ![t].wrote = {}]
    /\ pc' = [pc EXCEPT ![t] = "put"]
    /\ UNCHANGED <<_analyzer, tiers, _TOKEN_FILE_LOCK, ret, ncalls, env>>

\* a store_token whose token also depends on the thread that makes the call
StoreSaltedToken(t) ==
    /\ pc[t] = "store"
    /\ frame[t].i <= Len(frame[t].results)
    /\ LET res == frame[t].results[frame[t].i]
           original_value == Slice(frame[t].text, res.start, res.end)
           token == get_token_hash(
                        original_value \o (IF t = "t1" THEN <<"1">> ELSE <<"2">>),
                        res.entity_type)
           encrypted_val == encrypt_value(original_value, <<t, ncalls[t]>>)
       IN  /\ _token_store' = Put(_token_store, token, encrypted_val)
           /\ frame' = [frame EXCEPT ![t].token = token,
                                     ![t].encrypted_val = <<encrypted_val>>,
                                     ![t].wrote = {}]
    /\ pc' = [pc EXCEPT ![t] = "put"]
    /\ UNCHANGED <<_analyzer, redis_pii, token_file, _TOKEN_FILE_LOCK, ret, ncalls, env>>

\* a store_token that puts the original value in _token_store as it is
StoreInTheClear(t) ==
    /\ pc[t] = "store"
    /\ frame[t].i <= Len(frame[t].results)
    /\ LET res == frame[t].results[frame[t].i]
           original_value == Slice(frame[t].text, res.start, res.end)
           token == get_token_hash(original_value, res.entity_type)
           encrypted_val == encrypt_value(original_value, <<t, ncalls[t]>>)
       IN  /\ _token_store' = Put(_token_store, token,
                                  [pt |-> original_value, key |-> "", iv |-> << >>])
           /\ frame' = [frame EXCEPT ![t].token = token,
                                     ![t].encrypted_val = <<encrypted_val>>,
                                     ![t].wrote = {}]
    /\ pc' = [pc EXCEPT ![t] = "put"]
    /\ UNCHANGED <<_analyzer, redis_pii, token_file, _TOKEN_FILE_LOCK, ret, ncalls, env>>

\* encode_query: token and ciphertext of the next span, then
\* "_token_store[token] = encrypted_val"
store_token(t) ==
    /\ pc[t] = "store"
    /\ frame[t].i <= Len(frame[t].results)
    /\ LET res == frame[t].results[frame[t].i]
           original_value == Slice(frame[t].text, res.start, res.end)
           token == get_token_hash(original_value, res.entity_type)
           encrypted_val == encrypt_value(original_value, <<t, ncalls[t]>>)
       IN  /\ _token_store' = Put(_token_store, token, encrypted_val)
           /\ frame' = [frame EXCEPT ![t].token = token,
                                     ![t].encrypted_val = <<encrypted_val>>,
                                     ![t].wrote = {}]
    /\ pc' = [pc EXCEPT ![t] = "put"]
    /\ UNCHANGED <<_analyzer, redis_pii, token_file, _TOKEN_FILE_LOCK, ret, ncalls, env>>

\* a put that writes the Redis key and the token file as well
PutBothTiers(t) ==
    /\ pc[t] = "put"
    /\ connected
    /\ redis_pii' = Put(redis_pii, frame[t].token, frame[t].encrypted_val[1])
    /\ token_file' = FileOf(Put(token_file.data, frame[t].token,
                                frame[t].encrypted_val[1]))
    /\ frame' = [frame EXCEPT ![t] =
            SpanDone([frame[t] EXCEPT !.wrote = frame[t].wrote \cup {"external", "file"}])]
    /\ pc' = [pc EXCEPT ![t] = "store"]
    /\ UNCHANGED <<_analyzer, _token_store, _TOKEN_FILE_LOCK, ret, ncalls, env>>

\* encode_query: redis_client.is_connected is True and
\* redis_client.set_pii_mapping(token, encrypted_val, ttl) is called: setex,
\* or an exception of the client that is logged and answered with False,
\* which encode_query ignores
set_pii_mapping(t) ==
    /\ pc[t] = "put"
    /\ connected
    /\ redis_pii' = IF redis_up
                    THEN Put(redis_pii, frame[t].token, frame[t].encrypted_val[1])
                    ELSE redis_pii
    /\ frame' = [frame EXCEPT ![t] =
            SpanDone([frame[t] EXCEPT !.wrote = frame[t].wrote \cup {"external"}])]
    /\ pc' = [pc EXCEPT ![t] = "store"]
    /\ UNCHANGED <<_analyzer, _token_store, token_file, _TOKEN_FILE_LOCK, ret, ncalls, env>>

(***************************************************************************)
(* The file tier: _persist_token, _load_token_file, get_persisted_token.   *)
(***************************************************************************)
\* _load_token_file: "if not os.path.exists(_TOKEN_FILE): return {}" (to
\* ret_pc), else on to "with _TOKEN_FILE_LOCK, open(...)"
LoadTokenFile(t, f, caller, ret_pc) ==
    IF token_file.state = "absent"
    THEN /\ frame' = [frame EXCEPT ![t] = [f EXCEPT !.data = EmptyMap]]
         /\ pc' = [pc EXCEPT ![t] = ret_pc]
    ELSE /\ frame' = [frame EXCEPT ![t] = [f EXCEPT !.caller = caller]]
         /\ pc' = [pc EXCEPT ![t] = "load_lock"]

\* encode_query: redis_client.is_connected is False and _persist_token is
\* called: "with _TOKEN_FILE_LOCK:" (a threading.Lock, not reentrant) is
\* entered when the lock is free, then data = _load_token_file() is called
\* with the lock held
_persist_token(t) ==
    /\ pc[t] = "put"
    /\ ~connected
    /\ _TOKEN_FILE_LOCK = None
    /\ _TOKEN_FILE_LOCK' = t
    /\ LoadTokenFile(t, [frame[t] EXCEPT !.wrote = frame[t].wrote \cup {"file"}],
                     "persist", "persist_write")
    /\ UNCHANGED <<_analyzer, tiers, ret, ncalls, env>>

\* _load_token_file: "with _TOKEN_FILE_LOCK" acquires the lock
_load_token_file(t) ==
    /\ pc[t] = "load_lock"
    /\ _TOKEN_FILE_LOCK = None
    /\ _TOKEN_FILE_LOCK' = t
    /\ pc' = [pc EXCEPT ![t] = "load_read"]
    /\ UNCHANGED <<_analyzer, tiers, frame, ret, ncalls, env>>

\* json.load of the file: its object, or {} when the load raises (a file
\* opened for writing and not yet dumped is not JSON)
FileData == IF token_file.state = "ok" THEN token_file.data ELSE EmptyMap

\* a decode that drops a token whose ciphertext does not decrypt
ResolveOrDrop(f, encrypted_val) ==
    [f EXCEPT !.decoded_text =
        StrReplace(f.decoded_text, f.token,
                   IF decrypts(encrypted_val) THEN decrypt_value(encrypted_val)
                   ELSE << >>)]

\* decode_text: the ciphertext is decrypted and every occurrence of the token
\* replaced; if decrypt_value raises, the text is left as it is
Resolve(f, encrypted_val) ==
    IF decrypts(encrypted_val)
    THEN [f EXCEPT !.decoded_text =
            StrReplace(f.decoded_text, f.token, decrypt_value(encrypted_val))]
    ELSE f

\* decode_text is done with the token
TokenDone(f) ==
    [f EXCEPT !.token = << >>, !.encrypted_val = << >>, !.data = EmptyMap,
              !.caller = ""]

\* _load_token_file: the file is read and the lock released; the data goes to
\* _persist_token, or to get_persisted_token, which returns data.get(token)
\* to decode_text
load_read(t) ==
    /\ pc[t] = "load_read"
    /\ _TOKEN_FILE_LOCK' = None
    /\ IF frame[t].caller = "persist"
       THEN /\ frame' = [frame EXCEPT ![t].data = FileData]
            /\ pc' = [pc EXCEPT ![t] = "persist_write"]
       ELSE LET found == Get(FileData, frame[t].token)
            IN  IF found # << >>
                THEN /\ frame' = [frame EXCEPT ![t].encrypted_val = found]
                     /\ pc' = [pc EXCEPT ![t] = "backfill"]
                ELSE /\ frame' = [frame EXCEPT ![t] = TokenDone(frame[t])]
                     /\ pc' = [pc EXCEPT ![t] = "next_token"]
    /\ UNCHANGED <<_analyzer, tiers, ret, ncalls, env>>

\* _persist_token: data[token] = encrypted_val; open(_TOKEN_FILE, "w")
\* creates or truncates the file
persist_open(t) ==
    /\ pc[t] = "persist_write"
    /\ frame' = [frame EXCEPT ![t].data =
            Put(frame[t].data, frame[t].token, frame[t].encrypted_val[1])]
    /\ token_file' = [state |-> "partial", data |-> EmptyMap]
    /\ pc' = [pc EXCEPT ![t] = "persist_dump"]
    /\ UNCHANGED <<_analyzer, _token_store, redis_pii, _TOKEN_FILE_LOCK, ret, ncalls, env>>

\* _persist_token: json.dump(data, f), the file is closed and the lock
\* released; encode_query goes on with the span
persist_dump(t) ==
    /\ pc[t] = "persist_dump"
    /\ token_file' = FileOf(frame[t].data)
    /\ _TOKEN_FILE_LOCK' = None
    /\ frame' = [frame EXCEPT ![t] = SpanDone(frame[t])]
    /\ pc' = [pc EXCEPT ![t] = "store"]
    /\ UNCHANGED <<_analyzer, _token_store, redis_pii, ret, ncalls, env>>

(***************************************************************************)
(* decode_text.                                                            *)
(***************************************************************************)
RECURSIVE SetOf(_)
SetOf(seq) == IF seq = << >> THEN {} ELSE {Head(seq)} \cup SetOf(Tail(seq))

\* the texts a caller hands to decode_text: the text its encode_query just
\* returned, or (concurrent workload) one of DecodeTexts
DecodeArgs(t) ==
    (IF ret[t].op = "encode_query"
     THEN {[text |-> ret[t].value, orig |-> <<ret[t].text>>]} ELSE {})
    \cup (IF workload \in {"sequential", "collision"} THEN {}
          ELSE {[text |-> x, orig |-> << >>] :
                    x \in IF workload = "decode" THEN OrderTexts ELSE DecodeTexts})

\* a caller enters decode_text(text): tokens_found = re.findall(...)
decode_text(t) ==
    /\ MayCall(t, "decode_text")
    /\ \E a \in DecodeArgs(t) :
        frame' = [frame EXCEPT ![t] =
            [Frame0 EXCEPT !.op = "decode_text", !.text = a.text, !.orig = a.orig,
                           !.decoded_text = a.text,
                           !.todo = SetOf(FindTokens(a.text))]]
    /\ pc' = [pc EXCEPT ![t] = "next_token"]
    /\ ncalls' = [ncalls EXCEPT ![t] = ncalls[t] + 1]
    /\ ret' = [ret EXCEPT ![t] = Ret0]
    /\ UNCHANGED <<_analyzer, tiers, _TOKEN_FILE_LOCK, env>>

\* decode_text: every token of set(tokens_found) was handled
decode_text_return(t) ==
    /\ pc[t] = "next_token"
    /\ frame[t].op = "decode_text"
    /\ frame[t].todo = {}
    /\ ret' = [ret EXCEPT ![t] =
            [Ret0 EXCEPT !.op = "decode_text", !.text = frame[t].text,
                         !.value = frame[t].decoded_text,
                         !.orig = frame[t].orig]]
    /\ frame' = [frame EXCEPT ![t] = Frame0]
    /\ pc' = [pc EXCEPT ![t] = "idle"]
    /\ UNCHANGED <<_analyzer, tiers, _TOKEN_FILE_LOCK, ncalls, env>>

\* a lookup that goes to the slower tiers without reading _token_store
LookupSlowTiers(t) ==
    /\ pc[t] = "next_token"
    /\ \E token \in frame[t].todo :
        frame' = [frame EXCEPT ![t] =
            [frame[t] EXCEPT !.token = token, !.todo = frame[t].todo \ {token}]]
    /\ pc' = [pc EXCEPT ![t] =
            IF connected THEN "get_pii_mapping" ELSE "get_persisted_token"]
    /\ UNCHANGED <<_analyzer, tiers, _TOKEN_FILE_LOCK, ret, ncalls, env>>

\* decode_text: the next token of the set (in no fixed order) is looked up
\* in _token_store; on a miss the slower tiers follow
lookup(t) ==
    /\ pc[t] = "next_token"
    /\ \E token \in frame[t].todo :
        LET f == [frame[t] EXCEPT !.token = token, !.todo = frame[t].todo \ {token}]
            encrypted_val == Get(_token_store, token)
        IN  IF encrypted_val # << >>
            THEN /\ frame' = [frame EXCEPT ![t] = TokenDone(Resolve(f, encrypted_val[1]))]
                 /\ pc' = [pc EXCEPT ![t] = "next_token"]
            ELSE /\ frame' = [frame EXCEPT ![t] = f]
                 /\ pc' = [pc EXCEPT ![t] =
                        IF connected THEN "get_pii_mapping" ELSE "get_persisted_token"]
    /\ UNCHANGED <<_analyzer, tiers, _TOKEN_FILE_LOCK, ret, ncalls, env>>

\* a Redis lookup whose miss ends the lookup of the token
GetPiiMappingOnly(t) ==
    /\ pc[t] = "get_pii_mapping"
    /\ LET found == IF redis_up THEN Get(redis_pii, frame[t].token) ELSE << >>
       IN  IF found # << >>
           THEN /\ frame' = [frame EXCEPT ![t].encrypted_val = found]
                /\ pc' = [pc EXCEPT ![t] = "backfill"]
           ELSE /\ frame' = [frame EXCEPT ![t] = TokenDone(frame[t])]
                /\ pc' = [pc EXCEPT ![t] = "next_token"]
    /\ UNCHANGED <<_analyzer, tiers, _TOKEN_FILE_LOCK, ret, ncalls, env>>

\* redis_client.get_pii_mapping(token): the value of the key, None when the
\* key is missing or the client raises
get_pii_mapping(t) ==
    /\ pc[t] = "get_pii_mapping"
    /\ LET found == IF redis_up THEN Get(redis_pii, frame[t].token) ELSE << >>
       IN  IF found # << >>
           THEN /\ frame' = [frame EXCEPT ![t].encrypted_val = found]
                /\ pc' = [pc EXCEPT ![t] = "backfill"]
           ELSE /\ UNCHANGED frame
                /\ pc' = [pc EXCEPT ![t] = "get_persisted_token"]
    /\ UNCHANGED <<_analyzer, tiers, _TOKEN_FILE_LOCK, ret, ncalls, env>>

\* get_persisted_token(token): data = _load_token_file(); with no file the
\* token is not found
get_persisted_token(t) ==
    /\ pc[t] = "get_persisted_token"
    /\ LoadTokenFile(t, IF token_file.state = "absent"
                        THEN TokenDone(frame[t]) ELSE frame[t],
                     "lookup", "next_token")
    /\ UNCHANGED <<_analyzer, tiers, _TOKEN_FILE_LOCK, ret, ncalls, env>>

\* decode_text: "_token_store[token] = encrypted_val" after a hit in a slower
\* tier, then the decryption
backfill(t) ==
    /\ pc[t] = "backfill"
    /\ _token_store' = Put(_token_store, frame[t].token, frame[t].encrypted_val[1])
    /\ frame' = [frame EXCEPT ![t] =
            TokenDone(Resolve(frame[t], frame[t].encrypted_val[1]))]
    /\ pc' = [pc EXCEPT ![t] = "next_token"]
    /\ UNCHANGED <<_analyzer, redis_pii, token_file, _TOKEN_FILE_LOCK, ret, ncalls, env>>

(***************************************************************************)
(* encode_results and decode_results.                                      *)
(***************************************************************************)
\* "for val in row": the cells of a list or a tuple, the keys of a dict
Leaves(row) ==
    IF row.kind = "dict"
    THEN [k \in 1..Len(row.keys) |-> Cell(TRUE, row.keys[k])]
    ELSE row.cells

\* a caller enters encode_results(columns, rows): encoded_rows = []
encode_results(t) ==
    /\ MayCall(t, "encode_results")
    /\ \E a \in Tables(MaxRows) :
        frame' = [frame EXCEPT ![t] =
            [Frame0 EXCEPT !.op = "encode_results", !.result = a]]
    /\ pc' = [pc EXCEPT ![t] = "cell"]
    /\ ncalls' = [ncalls EXCEPT ![t] = ncalls[t] + 1]
    /\ ret' = [ret EXCEPT ![t] = Ret0]
    /\ UNCHANGED <<_analyzer, tiers, _TOKEN_FILE_LOCK, env>>

\* encode_results, one step of the loops over rows and cells: the row is
\* over and encoded_row is appended to encoded_rows; or the cell is not a
\* string and is appended; or it is a string and detect_pii is called on it
encode_cell(t) ==
    /\ pc[t] = "cell"
    /\ frame[t].op = "encode_results"
    /\ frame[t].row <= Len(frame[t].result.rows)
    /\ LET f == frame[t]
           vals == Leaves(f.result.rows[f.row])
       IN  IF f.col > Len(vals)
           THEN /\ frame' = [frame EXCEPT ![t] =
                        [f EXCEPT !.rows_out = Append(f.rows_out, ListRow(f.row_out)),
                                  !.row_out = << >>, !.row = f.row + 1, !.col = 1]]
                /\ pc' = pc
           ELSE IF ~vals[f.col].str
           THEN /\ frame' = [frame EXCEPT ![t] =
                        [f EXCEPT !.row_out = Append(f.row_out, vals[f.col]),
                                  !.col = f.col + 1]]
                /\ pc' = pc
           ELSE LET q == QueryOf(vals[f.col].val)
                    g == [f EXCEPT !.text = q.text, !.encoded_text = q.text,
                                   !.results = q.results, !.regex = q.regex,
                                   !.i = 1, !.mappings = << >>]
                IN  IF _analyzer = None
                    THEN /\ frame' = [frame EXCEPT ![t] = g]
                         /\ pc' = [pc EXCEPT ![t] = "get_analyzer"]
                    ELSE /\ \E raised \in BOOLEAN :
                                frame' = [frame EXCEPT ![t] =
                                             Detected(g, _analyzer, raised)]
                         /\ pc' = [pc EXCEPT ![t] = "store"]
    /\ UNCHANGED <<_analyzer, tiers, _TOKEN_FILE_LOCK, ret, ncalls, env>>

\* a cell_done that appends the cell's string as it came
CellDoneVerbatim(t) ==
    /\ pc[t] = "store"
    /\ frame[t].op = "encode_results"
    /\ frame[t].i > Len(frame[t].results)
    /\ frame' = [frame EXCEPT ![t] =
            [frame[t] EXCEPT !.row_out = Append(frame[t].row_out,
                                                Cell(TRUE, frame[t].text)),
                             !.col = frame[t].col + 1,
                             !.text = << >>, !.encoded_text = << >>,
                             !.results = << >>, !.regex = << >>,
                             !.raised = FALSE, !.i = 1, !.mappings = << >>]]
    /\ pc' = [pc EXCEPT ![t] = "cell"]
    /\ UNCHANGED <<_analyzer, tiers, _TOKEN_FILE_LOCK, ret, ncalls, env>>

\* encode_results: the loop over the entities of a cell is over (or there
\* were none) and "encoded_row.append(ev)" (or "append(val)") runs
cell_done(t) ==
    /\ pc[t] = "store"
    /\ frame[t].op = "encode_results"
    /\ frame[t].i > Len(frame[t].results)
    /\ frame' = [frame EXCEPT ![t] =
            [frame[t] EXCEPT !.row_out = Append(frame[t].row_out,
                                                Cell(TRUE, frame[t].encoded_text)),
                             !.col = frame[t].col + 1,
                             !.text = << >>, !.encoded_text = << >>,
                             !.results = << >>, !.regex = << >>,
                             !.raised = FALSE, !.i = 1, !.mappings = << >>]]
    /\ pc' = [pc EXCEPT ![t] = "cell"]
    /\ UNCHANGED <<_analyzer, tiers, _TOKEN_FILE_LOCK, ret, ncalls, env>>

\* encode_results: "return encoded_rows"
encode_results_return(t) ==
    /\ pc[t] = "cell"
    /\ frame[t].op = "encode_results"
    /\ frame[t].row > Len(frame[t].result.rows)
    /\ ret' = [ret EXCEPT ![t] =
            [Ret0 EXCEPT !.op = "encode_results", !.arg = frame[t].result,
                         !.result = Result("list", << >>, frame[t].rows_out)]]
    /\ frame' = [frame EXCEPT ![t] = Frame0]
    /\ pc' = [pc EXCEPT ![t] = "idle"]
    /\ UNCHANGED <<_analyzer, tiers, _TOKEN_FILE_LOCK, ncalls, env>>

\* the results a caller hands to decode_results: the rows an encode_results
\* returned, alone or wrapped as a columns/rows mapping, or a foreign result
DecodeResultArgs(t) ==
    (IF ret[t].op = "encode_results"
     THEN {[result |-> ret[t].result, orig |-> <<ret[t].arg>>],
           [result |-> Result("mapping", <<Column>>, ret[t].result.rows),
            orig |-> <<ret[t].arg>>]}
     ELSE {})
    \cup {[result |-> x, orig |-> << >>] : x \in ForeignResults}

\* the branch decode_results takes: a dict with the key "rows"; a non-empty
\* list whose first element is a dict; one whose first element is a list;
\* anything else
BranchOf(result) ==
    IF result.kind = "mapping" THEN "rows"
    ELSE IF result.kind = "list" /\ result.rows # << >>
              /\ result.rows[1].kind = "dict" THEN "dicts"
    ELSE IF result.kind = "list" /\ result.rows # << >>
              /\ result.rows[1].kind = "list" THEN "lists"
    ELSE "other"

\* a caller enters decode_results(result): the branch is chosen; a result of
\* no supported shape is returned as it is
decode_results(t) ==
    /\ MayCall(t, "decode_results")
    /\ \E a \in DecodeResultArgs(t) :
        IF BranchOf(a.result) = "other"
        THEN /\ ret' = [ret EXCEPT ![t] =
                    [Ret0 EXCEPT !.op = "decode_results", !.arg = a.result,
                                 !.result = a.result, !.orig = a.orig]]
             /\ UNCHANGED <<frame, pc>>
        ELSE /\ frame' = [frame EXCEPT ![t] =
                    [Frame0 EXCEPT !.op = "decode_results", !.result = a.result,
                                   !.branch = BranchOf(a.result), !.orig = a.orig]]
             /\ pc' = [pc EXCEPT ![t] = "leaf"]
             /\ ret' = [ret EXCEPT ![t] = Ret0]
    /\ ncalls' = [ncalls EXCEPT ![t] = ncalls[t] + 1]
    /\ UNCHANGED <<_analyzer, tiers, _TOKEN_FILE_LOCK, env>>

\* a decode_leaf that takes the cells of any row in the branch of dict rows
DecodeLeafAnyRow(t) ==
    /\ pc[t] = "leaf"
    /\ frame[t].row <= Len(frame[t].result.rows)
    /\ LET f == frame[t]
           row == f.result.rows[f.row]
           vals == IF f.branch = "dicts" THEN row.cells ELSE Leaves(row)
       IN  IF f.col > Len(vals)
           THEN /\ frame' = [frame EXCEPT ![t] =
                        [f EXCEPT !.rows_out = Append(f.rows_out,
                                      IF f.branch = "dicts"
                                      THEN Row("dict", row.keys, f.row_out)
                                      ELSE ListRow(f.row_out)),
                                  !.row_out = << >>, !.row = f.row + 1, !.col = 1]]
                /\ UNCHANGED <<pc, ret>>
           ELSE IF ~vals[f.col].str
           THEN /\ frame' = [frame EXCEPT ![t] =
                        [f EXCEPT !.row_out = Append(f.row_out, vals[f.col]),
                                  !.col = f.col + 1]]
                /\ UNCHANGED <<pc, ret>>
           ELSE /\ frame' = [frame EXCEPT ![t] =
                        [f EXCEPT !.text = vals[f.col].val,
                                  !.decoded_text = vals[f.col].val,
                                  !.todo = SetOf(FindTokens(vals[f.col].val))]]
                /\ pc' = [pc EXCEPT ![t] = "next_token"]
                /\ UNCHANGED ret
    /\ UNCHANGED <<_analyzer, tiers, _TOKEN_FILE_LOCK, ncalls, env>>

\* decode_results, one step of the loops over rows and values: in the branch
\* of dict rows "item.items()" raises for a row that is no dict; the row is
\* over and the decoded row is appended; or the value is not a string and is
\* kept; or it is a string and decode_text is called on it
decode_leaf(t) ==
    /\ pc[t] = "leaf"
    /\ frame[t].row <= Len(frame[t].result.rows)
    /\ LET f == frame[t]
           row == f.result.rows[f.row]
           vals == IF f.branch = "dicts" THEN row.cells ELSE Leaves(row)
       IN  IF f.branch = "dicts" /\ row.kind # "dict"
           THEN /\ ret' = [ret EXCEPT ![t] =
                        [Ret0 EXCEPT !.op = "decode_results", !.arg = f.result,
                                     !.raised = TRUE, !.orig = f.orig]]
                /\ frame' = [frame EXCEPT ![t] = Frame0]
                /\ pc' = [pc EXCEPT ![t] = "idle"]
           ELSE IF f.col > Len(vals)
           THEN /\ frame' = [frame EXCEPT ![t] =
                        [f EXCEPT !.rows_out = Append(f.rows_out,
                                      IF f.branch = "dicts"
                                      THEN Row("dict", row.keys, f.row_out)
                                      ELSE ListRow(f.row_out)),
                                  !.row_out = << >>, !.row = f.row + 1, !.col = 1]]
                /\ UNCHANGED <<pc, ret>>
           ELSE IF ~vals[f.col].str
           THEN /\ frame' = [frame EXCEPT ![t] =
                        [f EXCEPT !.row_out = Append(f.row_out, vals[f.col]),
                                  !.col = f.col + 1]]
                /\ UNCHANGED <<pc, ret>>
           ELSE /\ frame' = [frame EXCEPT ![t] =
                        [f EXCEPT !.text = vals[f.col].val,
                                  !.decoded_text = vals[f.col].val,
                                  !.todo = SetOf(FindTokens(vals[f.col].val))]]
                /\ pc' = [pc EXCEPT ![t] = "next_token"]
                /\ UNCHANGED ret
    /\ UNCHANGED <<_analyzer, tiers, _TOKEN_FILE_LOCK, ncalls, env>>

\* decode_results: decode_text returned for a string value, which is
\* appended to the decoded row
leaf_done(t) ==
    /\ pc[t] = "next_token"
    /\ frame[t].op = "decode_results"
    /\ frame[t].todo = {}
    /\ frame' = [frame EXCEPT ![t] =
            [frame[t] EXCEPT !.row_out = Append(frame[t].row_out,
                                                Cell(TRUE, frame[t].decoded_text)),
                             !.col = frame[t].col + 1,
                             !.text = << >>, !.decoded_text = << >>]]
    /\ pc' = [pc EXCEPT ![t] = "leaf"]
    /\ UNCHANGED <<_analyzer, tiers, _TOKEN_FILE_LOCK, ret, ncalls, env>>

\* decode_results: the loop over the rows is over; the rows branch returns a
\* copy of the dict with "rows" replaced, the others the decoded list
decode_results_return(t) ==
    /\ pc[t] = "leaf"
    /\ frame[t].row > Len(frame[t].result.rows)
    /\ ret' = [ret EXCEPT ![t] =
            [Ret0 EXCEPT !.op = "decode_results", !.arg = frame[t].result,
                         !.result = Result(frame[t].result.kind,
                                           frame[t].result.columns,
                                           frame[t].rows_out),
                         !.orig = frame[t].orig]]
    /\ frame' = [frame EXCEPT ![t] = Frame0]
    /\ pc' = [pc EXCEPT ![t] = "idle"]
    /\ UNCHANGED <<_analyzer, tiers, _TOKEN_FILE_LOCK, ncalls, env>>

(***************************************************************************)
(* RedisService: the session tokens.                                       *)
(***************************************************************************)
\* what a call of the session workload leaves unchanged besides the keys
SessionFrame ==
    <<_analyzer, tiers, _TOKEN_FILE_LOCK, pc, frame, connected, redis_up, boot,
      workload, ui>>

Returned(op, token, value) ==
    [Ret0 EXCEPT !.op = op, !.text = token, !.value = value]

\* set_token(user_id, token): False without a client; setex of the key
\* "token:<token>", True; False when the client raises
set_token(t) ==
    /\ MayCall(t, "set_token")
    /\ \E token \in SessionTokens, user_id \in UserIds :
        IF ~connected
        THEN /\ ret' = [ret EXCEPT ![t] = Returned("set_token", token, ReturnsFalse)]
             /\ UNCHANGED redis_tokens
        ELSE IF redis_up
        THEN /\ redis_tokens' = Put(redis_tokens, token, user_id)
             /\ ret' = [ret EXCEPT ![t] = Returned("set_token", token, ReturnsTrue)]
        ELSE /\ ret' = [ret EXCEPT ![t] = Returned("set_token", token, ReturnsFalse)]
             /\ UNCHANGED redis_tokens
    /\ ncalls' = [ncalls EXCEPT ![t] = ncalls[t] + 1]
    /\ UNCHANGED SessionFrame

\* get_token_user(token): None without a client; the value of the key, None
\* when it is missing or the client raises
get_token_user(t) ==
    /\ MayCall(t, "get_token_user")
    /\ \E token \in SessionTokens :
        ret' = [ret EXCEPT ![t] = Returned("get_token_user", token,
                    IF connected /\ redis_up /\ Has(redis_tokens, token)
                    THEN <<redis_tokens[token]>> ELSE ReturnsNone)]
    /\ ncalls' = [ncalls EXCEPT ![t] = ncalls[t] + 1]
    /\ UNCHANGED <<redis_tokens, SessionFrame>>

\* a delete_token that deletes the key "token:<token>": True, False when the
\* client raises
DeleteKey(t) ==
    /\ MayCall(t, "delete_token")
    /\ \E token \in SessionTokens :
        IF ~connected
        THEN /\ ret' = [ret EXCEPT ![t] = Returned("delete_token", token, ReturnsFalse)]
             /\ UNCHANGED redis_tokens
        ELSE IF redis_up
        THEN /\ redis_tokens' = [k \in DOMAIN redis_tokens \ {token} |-> redis_tokens[k]]
             /\ ret' = [ret EXCEPT ![t] = Returned("delete_token", token, ReturnsTrue)]
        ELSE /\ ret' = [ret EXCEPT ![t] = Returned("delete_token", token, ReturnsFalse)]
             /\ UNCHANGED redis_tokens
    /\ ncalls' = [ncalls EXCEPT ![t] = ncalls[t] + 1]
    /\ UNCHANGED SessionFrame

\* delete_token(token): False without a client; with a client the body ends
\* after the test, so the method returns None and no key is deleted
delete_token(t) ==
    /\ MayCall(t, "delete_token")
    /\ \E token \in SessionTokens :
        ret' = [ret EXCEPT ![t] = Returned("delete_token", token,
                    IF ~connected THEN ReturnsFalse ELSE ReturnsNone)]
    /\ ncalls' = [ncalls EXCEPT ![t] = ncalls[t] + 1]
    /\ UNCHANGED <<redis_tokens, SessionFrame>>

\* the expiry time of a key set by setex has passed
token_expires ==
    /\ \E token \in DOMAIN redis_tokens :
        redis_tokens' = [k \in DOMAIN redis_tokens \ {token} |-> redis_tokens[k]]
    /\ UNCHANGED <<SessionFrame, ret, ncalls>>

(***************************************************************************)
(* The specifications.                                                     *)
(***************************************************************************)
Step(t) ==
    \/ encode_query(t)
    \/ get_analyzer(t)
    \/ store_token(t)
    \/ set_pii_mapping(t)
    \/ _persist_token(t)
    \/ _load_token_file(t)
    \/ load_read(t)
    \/ persist_open(t)
    \/ persist_dump(t)
    \/ encode_query_return(t)
    \/ decode_text(t)
    \/ lookup(t)
    \/ get_pii_mapping(t)
    \/ get_persisted_token(t)
    \/ backfill(t)
    \/ decode_text_return(t)

Next == redis_outage \/ \E t \in Threads : Step(t)

\* two threads, the narrow queries
Spec == Init /\ [][Next]_vars

\* the steps of encode_query and decode_text while Redis answers
StepCodec(t) ==
    \/ encode_query(t)
    \/ get_analyzer(t)
    \/ store_token(t)
    \/ set_pii_mapping(t)
    \/ encode_query_return(t)
    \/ decode_text(t)
    \/ lookup(t)
    \/ get_pii_mapping(t)
    \/ get_persisted_token(t)
    \/ decode_text_return(t)

NextCodec == \E t \in Threads : StepCodec(t)

\* one thread that encodes a query and decodes the result, the wide queries
SpecCodec == InitCodec /\ [][NextCodec]_vars

\* one thread that encodes a table and decodes a result, while Redis answers
InitTable == InitWith("table", {d \in FreshDeployments : d.redis_up})

StepTable(t) ==
    \/ encode_results(t)
    \/ encode_cell(t)
    \/ get_analyzer(t)
    \/ store_token(t)
    \/ set_pii_mapping(t)
    \/ cell_done(t)
    \/ encode_results_return(t)
    \/ decode_results(t)
    \/ decode_leaf(t)
    \/ lookup(t)
    \/ get_pii_mapping(t)
    \/ get_persisted_token(t)
    \/ leaf_done(t)
    \/ decode_results_return(t)

NextTable == \E t \in Threads : StepTable(t)

SpecTable == InitTable /\ [][NextTable]_vars

\* two threads that set, read and delete session tokens
InitSession == InitWith("session", FreshDeployments)

StepSession(t) ==
    \/ set_token(t)
    \/ get_token_user(t)
    \/ delete_token(t)

NextSession == redis_outage \/ token_expires \/ \E t \in Threads : StepSession(t)

SpecSession == InitSession /\ [][NextSession]_vars

\* two threads, each encoding one of two values with the same token and
\* decoding the text it got: every lookup is answered by _token_store
InitCollision == InitWith("collision", FreshDeployments)

StepCollision(t) ==
    \/ encode_query(t)
    \/ get_analyzer(t)
    \/ store_token(t)
    \/ set_pii_mapping(t)
    \/ _persist_token(t)
    \/ persist_open(t)
    \/ persist_dump(t)
    \/ encode_query_return(t)
    \/ decode_text(t)
    \/ lookup(t)
    \/ decode_text_return(t)

NextCollision == redis_outage \/ \E t \in Threads : StepCollision(t)

SpecCollision == InitCollision /\ [][NextCollision]_vars

\* one thread that decodes texts whose mappings the Redis server holds
InitDecode == InitWith("decode", DecodeDeployments)

StepDecode(t) ==
    \/ decode_text(t)
    \/ lookup(t)
    \/ get_pii_mapping(t)
    \/ get_persisted_token(t)
    \/ backfill(t)
    \/ decode_text_return(t)

NextDecode == redis_outage \/ \E t \in Threads : StepDecode(t)

SpecDecode == InitDecode /\ [][NextDecode]_vars

(***************************************************************************)
(* The chat frontend (streamlit_app.py).  One browser session: the script  *)
(* runs from the top after every widget event and after every st.rerun(),  *)
(* with st.session_state kept between the runs.  A chat is a record of its *)
(* id and its messages; a message has a role, a content and the flag       *)
(* "handled".                                                              *)
(***************************************************************************)
MaxChats == 2
MaxPrompts == 2

\* the ids _new_chat may draw: "chat_<seconds>_<random 1000..9999>"; nothing
\* keeps two draws apart
ChatIds == {"chat_1", "chat_2"}

Message(role, content, handled) ==
    [role |-> role, content |-> content, handled |-> handled]

UserMessage == Message("user", "question", FALSE)

_new_chat(chat_id) == [id |-> chat_id, messages |-> << >>]

\* what chat_history.json may hold when the session starts: nothing, no
\* chat, or one chat whose last message is a question not yet answered
HistoryFiles ==
    {<< >>,
     << << >> >>,
     << <<[id |-> "chat_1", messages |-> <<UserMessage>>]>> >>}

\* load_history().get("chats", []): the chats of the file, or one new chat
\* when there is no file
load_history(file, chat_id) ==
    IF file = << >> THEN <<_new_chat(chat_id)>> ELSE file[1]

\* the position in st.session_state.chats of the chat get_active_chat
\* returns, 0 when it returns None
get_active_chat(ss) ==
    LET found == {i \in DOMAIN ss.chats : ss.chats[i].id = ss.active_chat_id}
    IN  IF ss.active_chat_id = None \/ found = {} THEN 0
        ELSE CHOOSE i \in found : \A j \in found : i <= j

active_messages(ss) ==
    IF get_active_chat(ss) = 0 THEN << >>
    ELSE ss.chats[get_active_chat(ss)].messages

\* active_messages.append(message): the list of the active chat grows (a
\* list that belongs to no chat is dropped at the end of the run)
AppendMessage(ss, message) ==
    IF get_active_chat(ss) = 0 THEN ss
    ELSE [ss EXCEPT !.chats[get_active_chat(ss)].messages = Append(@, message)]

\* active_messages[-2]["handled"] = True
MarkHandled(ss) ==
    LET a == get_active_chat(ss)
        n == Len(active_messages(ss))
    IN  IF a = 0 \/ n < 2 THEN ss
        ELSE [ss EXCEPT !.chats[a].messages[n - 1].handled = TRUE]

RECURSIVE UserMessages(_)
UserMessages(chats) ==
    IF chats = << >> THEN 0
    ELSE Len(SelectSeq(Head(chats).messages, LAMBDA m : m.role = "user"))
            + UserMessages(Tail(chats))

\* the condition under which main answers the last message
Pending(ss) ==
    LET msgs == active_messages(ss)
    IN  /\ msgs # << >>
        /\ msgs[Len(msgs)].role = "user"
        /\ ~msgs[Len(msgs)].handled
        /\ ~ss.is_processing

\* st.rerun(): the run ends and the script starts again
Rerun == [Run0 EXCEPT !.pc = "run"]

\* what the other variables are while the frontend is modelled
NoEngine ==
    /\ boot \in {d \in FreshDeployments : d.redis_up}
    /\ redis_up = boot.redis_up
    /\ connected = boot.redis_up
    /\ redis_pii = boot.redis_pii
    /\ redis_tokens = EmptyMap
    /\ token_file = boot.token_file
    /\ _analyzer = None
    /\ _token_store = EmptyMap
    /\ _TOKEN_FILE_LOCK = None
    /\ pc = [t \in Threads |-> "idle"]
    /\ frame = [t \in Threads |-> Frame0]
    /\ ret = [t \in Threads |-> Ret0]
    /\ ncalls = [t \in Threads |-> 0]

engine ==
    <<_analyzer, _token_store, connected, redis_up, redis_pii, redis_tokens,
      token_file, _TOKEN_FILE_LOCK, pc, frame, ret, ncalls, boot, workload>>

\* a session starts: the session state is initialised from the history file
\* and the script begins its first run
InitChat ==
    /\ workload = "chat"
    /\ NoEngine
    /\ can_login \in BOOLEAN
    /\ history_file \in HistoryFiles
    /\ \E chat_id \in ChatIds :
        LET chats == load_history(history_file, chat_id)
        IN  session_state =
                [SessionState0 EXCEPT
                    !.chats = chats,
                    !.active_chat_id = IF chats # << >> THEN chats[1].id ELSE None]
    /\ run = Rerun

\* render_sidebar in a run with no button pressed: without a token the
\* sidebar asks for one; with a token it stores it, loads the schema (the
\* insights may come out empty) and reruns
render_sidebar ==
    /\ run.pc = "run"
    /\ IF session_state.jwt_token = None /\ can_login
       THEN /\ \E insights \in BOOLEAN :
                session_state' = [session_state EXCEPT !.jwt_token = "token",
                                                       !.insights = insights]
            /\ run' = Rerun
       ELSE /\ run' = [run EXCEPT !.pc = "main"]
            /\ UNCHANGED session_state
    /\ UNCHANGED <<can_login, history_file, engine>>

\* the button "New Chat"
new_chat_click ==
    /\ run.pc = "idle"
    /\ Len(session_state.chats) < MaxChats
    /\ \E chat_id \in ChatIds :
        LET chats == Append(session_state.chats, _new_chat(chat_id))
        IN  /\ session_state' = [session_state EXCEPT !.chats = chats,
                                                      !.active_chat_id = chat_id]
            /\ history_file' = <<chats>>
    /\ run' = Rerun
    /\ UNCHANGED <<can_login, engine>>

\* the button of one of the last 20 chats
select_chat ==
    /\ run.pc = "idle"
    /\ \E i \in DOMAIN session_state.chats :
        /\ i > Len(session_state.chats) - 20
        /\ session_state' =
               [session_state EXCEPT !.active_chat_id = session_state.chats[i].id]
    /\ run' = Rerun
    /\ UNCHANGED <<can_login, history_file, engine>>

\* the button "Delete Current Chat": the chats whose id is not the active id
\* stay; the last of them becomes active, or a new chat when none is left
delete_current_chat ==
    /\ run.pc = "idle"
    /\ LET active_id == session_state.active_chat_id
           chats == SelectSeq(session_state.chats, LAMBDA c : c.id # active_id)
       IN  IF chats # << >>
           THEN /\ session_state' =
                      [session_state EXCEPT !.chats = chats,
                                            !.active_chat_id = chats[Len(chats)].id]
                /\ history_file' = <<chats>>
           ELSE \E chat_id \in ChatIds :
                /\ session_state' =
                      [session_state EXCEPT !.chats = <<_new_chat(chat_id)>>,
                                            !.active_chat_id = chat_id]
                /\ history_file' = <<session_state'.chats>>
    /\ run' = Rerun
    /\ UNCHANGED <<can_login, engine>>

\* main, "Ensure there is an active chat": after it main reads the active
\* chat
ensure_active_chat ==
    /\ run.pc = "main"
    /\ IF session_state.chats = << >>
       THEN \E chat_id \in ChatIds :
                session_state' = [session_state EXCEPT !.chats = <<_new_chat(chat_id)>>,
                                                       !.active_chat_id = chat_id]
       ELSE IF session_state.active_chat_id = None
       THEN session_state' =
                [session_state EXCEPT !.active_chat_id = session_state.chats[1].id]
       ELSE UNCHANGED session_state
    /\ run' = [run EXCEPT !.pc = "read"]
    /\ UNCHANGED <<can_login, history_file, engine>>

\* main, "Handle pending user message": without a token the answer is the
\* request to log in and the run ends in a rerun; with one is_processing is
\* set and the question goes to the backend; with nothing pending the run
\* ends at the chat input
handle_pending ==
    /\ run.pc = "read"
    /\ IF Pending(session_state)
       THEN IF session_state.jwt_token = None
            THEN /\ session_state' =
                        MarkHandled(AppendMessage(session_state,
                            Message("assistant", "Please login first", FALSE)))
                 /\ run' = Rerun
            ELSE /\ session_state' = [session_state EXCEPT !.is_processing = TRUE]
                 /\ run' = [run EXCEPT !.pc = "stream"]
       ELSE /\ run' = [run EXCEPT !.pc = "idle"]
            /\ UNCHANGED session_state
    /\ UNCHANGED <<can_login, history_file, engine>>

\* what the loop over query_backend_stream leaves: events up to "done" (the
\* answer may be empty), an "error" event (also what the generator yields
\* when the request raises), or no event at all
StreamOutcomes ==
    {[received_any_event |-> TRUE, errors |-> FALSE, answer |-> "answer"],
     [received_any_event |-> TRUE, errors |-> FALSE, answer |-> ""],
     [received_any_event |-> TRUE, errors |-> TRUE, answer |-> ""],
     [received_any_event |-> FALSE, errors |-> FALSE, answer |-> ""]}

\* main, "Process SSE stream": after the loop the fallback follows when no
\* event was received and no error recorded
query_backend_stream ==
    /\ run.pc = "stream"
    /\ \E o \in StreamOutcomes :
        run' = [pc |-> IF ~o.received_any_event /\ ~o.errors
                       THEN "fallback" ELSE "save",
                received_any_event |-> o.received_any_event,
                errors |-> o.errors, answer |-> o.answer]
    /\ UNCHANGED <<session_state, can_login, history_file, engine>>

\* a fallback whose failures all come back as an error of the response
QueryBackendOnceCaught ==
    /\ run.pc = "fallback"
    /\ \E outcome \in {"answer", "error", "raises"} :
        run' = [run EXCEPT !.pc = "save",
                           !.errors = (outcome # "answer"),
                           !.answer = IF outcome = "answer" THEN "answer" ELSE ""]
    /\ UNCHANGED <<session_state, can_login, history_file, engine>>

\* query_backend_once: the answer of the response, the error of a response
\* that is not 200, or an exception of requests.post or response.json(),
\* which nothing in main catches: the run ends there
query_backend_once ==
    /\ run.pc = "fallback"
    /\ \E outcome \in {"answer", "error", "raises"} :
        IF outcome = "raises"
        THEN run' = Run0
        ELSE run' = [run EXCEPT !.pc = "save",
                                !.errors = (outcome = "error"),
                                !.answer = IF outcome = "answer" THEN "answer" ELSE ""]
    /\ UNCHANGED <<session_state, can_login, history_file, engine>>

\* the content of the assistant message
Content(r) ==
    IF r.errors THEN "I encountered an error processing your request."
    ELSE IF r.answer = "" THEN "No response received."
    ELSE r.answer

\* a save that leaves the question not handled
SaveWithoutHandled ==
    /\ run.pc = "save"
    /\ LET ss == AppendMessage(session_state,
                               Message("assistant", Content(run), FALSE))
       IN  /\ session_state' = [ss EXCEPT !.is_processing = FALSE]
           /\ history_file' = <<ss.chats>>
    /\ run' = Rerun
    /\ UNCHANGED <<can_login, engine>>

\* main, "Save assistant message": the message is appended, the question
\* marked handled, is_processing reset, the history saved, and the script
\* reruns
save_assistant_message ==
    /\ run.pc = "save"
    /\ LET ss == MarkHandled(AppendMessage(session_state,
                                 Message("assistant", Content(run), FALSE)))
       IN  /\ session_state' = [ss EXCEPT !.is_processing = FALSE]
           /\ history_file' = <<ss.chats>>
    /\ run' = Rerun
    /\ UNCHANGED <<can_login, engine>>

\* a suggestion button (shown with insights and while not processing)
suggestion_click ==
    /\ run.pc = "idle"
    /\ session_state.insights
    /\ ~session_state.is_processing
    /\ UserMessages(session_state.chats) < MaxPrompts
    /\ session_state' = AppendMessage(session_state, UserMessage)
    /\ run' = Rerun
    /\ UNCHANGED <<can_login, history_file, engine>>

\* the chat input (disabled while is_processing)
chat_input ==
    /\ run.pc = "idle"
    /\ ~session_state.is_processing
    /\ UserMessages(session_state.chats) < MaxPrompts
    /\ LET ss == AppendMessage(session_state, UserMessage)
       IN  /\ session_state' = ss
           /\ history_file' = <<ss.chats>>
    /\ run' = Rerun
    /\ UNCHANGED <<can_login, engine>>

\* the steps the script takes by itself
ScriptStep ==
    \/ render_sidebar
    \/ ensure_active_chat
    \/ handle_pending
    \/ query_backend_stream
    \/ query_backend_once
    \/ save_assistant_message

NextChat ==
    \/ new_chat_click
    \/ select_chat
    \/ delete_current_chat
    \/ suggestion_click
    \/ chat_input
    \/ render_sidebar
    \/ ensure_active_chat
    \/ handle_pending
    \/ query_backend_stream
    \/ query_backend_once
    \/ save_assistant_message

\* one browser session
SpecChat == InitChat /\ [][NextChat]_vars

\* a script that has started a run goes on to the end of the run
SpecChatLive == SpecChat /\ WF_vars(ScriptStep)

(***************************************************************************)
(* Properties of encode_query and decode_text as one caller sees them.     *)
(***************************************************************************)
\* C1 (round trip): when a text without a token-shaped substring was encoded
\* and the returned text decoded, with every mapping of that encode still in
\* _token_store, decode_text returns the text, whatever spans were detected.
RoundTrip ==
    \A t \in Threads :
        (/\ ret[t].op = "decode_text"
         /\ ret[t].orig # << >>
         /\ ~HasToken(ret[t].orig[1]))
        => ret[t].value = ret[t].orig[1]

SpanSet(results) == {results[i] : i \in 1..Len(results)}

NonOverlapping(results) ==
    \A i, j \in 1..Len(results) :
        i # j => \/ results[i].end <= results[j].start
                 \/ results[j].end <= results[i].start

\* text[from:] with each span of the set replaced by the token of its
\* characters, built left to right
RECURSIVE Replaced(_, _, _)
Replaced(text, spans, from) ==
    IF spans = {} THEN Slice(text, from, Len(text))
    ELSE LET s == CHOOSE x \in spans : \A y \in spans : x.start <= y.start
         IN  Slice(text, from, s.start)
                 \o get_token_hash(Slice(text, s.start, s.end), s.entity_type)
                 \o Replaced(text, spans \ {s}, s.end)

\* C3 (offset safety): when the detected spans are pairwise non-overlapping,
\* encode_query returns the text with exactly each span replaced by the token
\* of its characters and every other character unchanged and in order.
OffsetSafety ==
    \A t \in Threads :
        (ret[t].op = "encode_query" /\ NonOverlapping(ret[t].results))
        => ret[t].value = Replaced(ret[t].text, SpanSet(ret[t].results), 0)

\* an encode_query has returned for two adjacent spans, one shorter and one
\* longer than its token
OffsetSafetyWitness ==
    \E t \in Threads :
        /\ ret[t].op = "encode_query"
        /\ NonOverlapping(ret[t].results)
        /\ \E i, j \in 1..Len(ret[t].results) :
            LET x == ret[t].results[i]
                y == ret[t].results[j]
            IN  /\ x.end = y.start
                /\ x.end - x.start < Len(ret[t].mappings[i].token)
                /\ y.end - y.start > Len(ret[t].mappings[j].token)

(***************************************************************************)
(* Properties of the token store.                                          *)
(***************************************************************************)
\* C2 (termination with the external cache not connected): a thread inside
\* a call can always take its next step, or it waits for _TOKEN_FILE_LOCK
\* while another thread holds it and can take its next step; so no thread
\* blocks forever on the lock and every call returns.
CallsTerminate ==
    ~connected =>
        \A t \in Threads :
            pc[t] # "idle" =>
                \/ ENABLED Step(t)
                \/ \E u \in Threads \ {t} : _TOKEN_FILE_LOCK = u /\ ENABLED Step(u)

\* the ciphertexts a map holds
Ciphertexts(m) == {m[k] : k \in DOMAIN m}

\* the object the token file holds, or will hold when the write under way
\* is finished
FileContent ==
    IF token_file.state = "partial"
    THEN UNION {IF pc[u] = "persist_dump" THEN {frame[u].data} ELSE {} : u \in Threads}
    ELSE {token_file.data}

FileHolds(token) == \E m \in FileContent : Has(m, token)

\* C4 (store write routing): after every completed encode_query the mapping
\* of each token it emitted is in the external cache or in the token file,
\* also when Redis stopped answering after the process started.
WriteRouted ==
    \A t \in Threads :
        ret[t].op = "encode_query" =>
            \A i \in 1..Len(ret[t].mappings) :
                \/ Has(redis_pii, ret[t].mappings[i].token)
                \/ FileHolds(ret[t].mappings[i].token)

\* thread t is inside _persist_token
InPersist(t) ==
    \/ pc[t] \in {"persist_write", "persist_dump"}
    \/ pc[t] \in {"load_lock", "load_read"} /\ frame[t].caller = "persist"

\* C5 (one put, one slower tier): when a put reaches its slower-tier call the
\* token is already in _token_store and no slower tier was written for it;
\* a put takes the Redis path or the file path, never both, and no
\* ciphertext is in both the Redis keys and the token file.
PutOnce ==
    /\ \A t \in Threads :
        /\ pc[t] = "put" => Has(_token_store, frame[t].token) /\ frame[t].wrote = {}
        /\ InPersist(t) => frame[t].wrote = {"file"} /\ Has(_token_store, frame[t].token)
        /\ (pc[t] = "store" /\ frame[t].i > 1) =>
                /\ Cardinality(frame[t].wrote) = 1
                /\ frame[t].wrote = IF connected THEN {"external"} ELSE {"file"}
    /\ \A m \in FileContent : Ciphertexts(redis_pii) \cap Ciphertexts(m) = {}

\* a put that took the file path is finished
PutOnceWitness ==
    \E t \in Threads :
        /\ pc[t] = "store"
        /\ frame[t].i > 1
        /\ frame[t].wrote = {"file"}
        /\ token_file.state = "ok"
        /\ Has(token_file.data, frame[t].mappings[1].token)

(***************************************************************************)
(* Properties of the lookup of decode_text, step by step.                  *)
(***************************************************************************)
\* thread t takes the next token of its text in this step
Looks(t) == pc[t] = "next_token" /\ frame'[t].todo # frame[t].todo

Picked(t) == CHOOSE k \in frame[t].todo : k \notin frame'[t].todo

\* the text after the token was handled with the ciphertext val
Resolved(text, token, val) ==
    IF decrypts(val) THEN StrReplace(text, token, decrypt_value(val)) ELSE text

\* a token that _token_store holds is resolved from it, whatever the other
\* tiers hold, and neither Redis nor the file is read for it
MemFirst(t) ==
    (Looks(t) /\ Has(_token_store, Picked(t))) =>
        /\ pc'[t] = "next_token"
        /\ frame'[t].decoded_text =
               Resolved(frame[t].decoded_text, Picked(t), _token_store[Picked(t)])

\* when the file is read for a token it holds, the file's value is taken
FileValueUsed(t) ==
    (/\ pc[t] = "load_read" /\ pc'[t] # "load_read"
     /\ frame[t].caller = "lookup"
     /\ Has(FileData, frame[t].token)) =>
        /\ pc'[t] = "backfill"
        /\ frame'[t].encrypted_val = <<FileData[frame[t].token]>>

\* a value found in a slower tier is written to _token_store and used
BackFilled(t) ==
    (pc[t] = "backfill" /\ pc'[t] # "backfill") =>
        /\ pc'[t] = "next_token"
        /\ _token_store' =
               Put(_token_store, frame[t].token, frame[t].encrypted_val[1])
        /\ frame'[t].decoded_text =
               Resolved(frame[t].decoded_text, frame[t].token,
                        frame[t].encrypted_val[1])

\* the file is read only when Redis is not connected or did not return the
\* token
FileAfterExternal(t) ==
    (pc'[t] = "get_persisted_token" /\ pc[t] # "get_persisted_token") =>
        \/ ~connected
        \/ /\ pc[t] = "get_pii_mapping"
           /\ ~(redis_up /\ Has(redis_pii, frame[t].token))

\* the value of the file is taken whenever the file holds the token and
\* _token_store does not
FileValueAlways(t) ==
    (/\ pc'[t] = "backfill" /\ pc[t] # "backfill"
     /\ ~Has(_token_store, frame[t].token)
     /\ Has(FileData, frame[t].token)) =>
        frame'[t].encrypted_val = <<FileData[frame[t].token]>>

\* C6 (tier precedence) as claimed: a token in _token_store is resolved from
\* it; a token absent from _token_store and present in the file is resolved
\* with the file's value, which is written to _token_store, so that a second
\* lookup reads neither Redis nor the file.
TierPrecedenceAsClaimed ==
    [][\A t \in Threads : MemFirst(t) /\ FileValueAlways(t) /\ BackFilled(t)]_vars

\* C6 (tier precedence), amended: a token in _token_store is resolved from
\* it; a token absent from _token_store that Redis is not connected for or
\* does not return, and that the file holds, is resolved with the file's
\* value, which is written to _token_store, so that a second lookup reads
\* neither Redis nor the file.
TierPrecedence ==
    [][\A t \in Threads :
          MemFirst(t) /\ FileAfterExternal(t) /\ FileValueUsed(t) /\ BackFilled(t)]_vars

\* the file's value is about to be written to _token_store while Redis is
\* connected and did not return the token
TierPrecedenceWitness ==
    \E t \in Threads :
        /\ pc[t] = "backfill"
        /\ frame[t].caller = "lookup"
        /\ connected
        /\ ~Has(_token_store, frame[t].token)

\* on a miss in _token_store, Redis is asked when connected, else the file
MemMissGoesOn(t) ==
    (Looks(t) /\ ~Has(_token_store, Picked(t))) =>
        /\ pc'[t] = IF connected THEN "get_pii_mapping" ELSE "get_persisted_token"
        /\ frame'[t].token = Picked(t)
        /\ frame'[t].decoded_text = frame[t].decoded_text

\* a hit in Redis goes to the back-fill with the value of the key; a miss or
\* an error of the client goes to the file
ExternalThenFile(t) ==
    (pc[t] = "get_pii_mapping" /\ pc'[t] # "get_pii_mapping") =>
        IF redis_up /\ Has(redis_pii, frame[t].token)
        THEN /\ pc'[t] = "backfill"
             /\ frame'[t].encrypted_val = <<redis_pii[frame[t].token]>>
        ELSE pc'[t] = "get_persisted_token"

\* the lookup of a token ends without a value only after the file was found
\* absent or without the token
AbsentAfterFile(t) ==
    (/\ pc[t] \in {"get_pii_mapping", "get_persisted_token", "load_lock", "load_read"}
     /\ frame[t].op = "decode_text"
     /\ pc'[t] = "next_token") =>
        /\ pc[t] \in {"get_persisted_token", "load_read"}
        /\ ~Has(FileData, frame[t].token)
        /\ frame'[t].decoded_text = frame[t].decoded_text

\* C7 (lookup cascade): on a miss in _token_store Redis is asked when
\* connected and its hit is back-filled; on a miss, an error or no connection
\* the file is read; a token is left unresolved only when the file does not
\* hold it either, and then decode_text goes on with the next token.
LookupCascade ==
    [][\A t \in Threads :
          /\ MemMissGoesOn(t)
          /\ ExternalThenFile(t)
          /\ FileValueUsed(t)
          /\ BackFilled(t)
          /\ AbsentAfterFile(t)]_vars

\* the file is read for a token after the connected Redis stopped answering
LookupCascadeWitness ==
    \E t \in Threads :
        /\ pc[t] = "load_read"
        /\ frame[t].caller = "lookup"
        /\ connected
        /\ ~redis_up
        /\ Has(redis_pii, frame[t].token)

\* the tokens of a text that _token_store holds with a ciphertext that decrypts
Resolvable(text) ==
    {k \in SetOf(FindTokens(text)) :
        Has(_token_store, k) /\ decrypts(_token_store[k])}

\* the text with every occurrence of the tokens of S replaced by their values
RECURSIVE ReplaceAll(_, _)
ReplaceAll(text, S) ==
    IF S = {} THEN text
    ELSE LET k == CHOOSE x \in S : TRUE
         IN  ReplaceAll(StrReplace(text, k, decrypt_value(_token_store[k])), S \ {k})

\* thread t is done with a token in this step: the token, and the ciphertext
\* found for it (none after a miss in every tier)
Ends(t) ==
    /\ frame[t].op = "decode_text"
    /\ pc'[t] = "next_token"
    /\ \/ Looks(t)
       \/ pc[t] \in {"get_persisted_token", "load_read", "backfill"}

EndedToken(t) == IF pc[t] = "next_token" THEN Picked(t) ELSE frame[t].token

Found(t) ==
    IF pc[t] = "next_token" THEN <<_token_store[Picked(t)]>>
    ELSE IF pc[t] = "backfill" THEN frame[t].encrypted_val
    ELSE << >>

\* C8 (fail-open decode): a token that no tier returns, or whose ciphertext
\* does not decrypt, is left in the text at every occurrence and the step
\* raises nothing; a token that resolves and decrypts is replaced; so
\* decode_text returns its input with some of the resolvable tokens replaced
\* and nothing else changed, and the input itself when no token resolves.
FailOpen ==
    /\ [](\A t \in Threads :
            ret[t].op = "decode_text" =>
                ret[t].value \in
                    {ReplaceAll(ret[t].text, S) : S \in SUBSET Resolvable(ret[t].text)})
    /\ [][\A t \in Threads :
            /\ Ends(t) =>
                frame'[t].decoded_text =
                    IF Found(t) # << >> /\ decrypts(Found(t)[1])
                    THEN StrReplace(frame[t].decoded_text, EndedToken(t),
                                    decrypt_value(Found(t)[1]))
                    ELSE frame[t].decoded_text
            /\ (frame[t].op = "decode_text" /\ pc'[t] = "idle" /\ pc[t] # "idle") =>
                /\ ret'[t].op = "decode_text"
                /\ ret'[t].value = frame[t].decoded_text]_vars

\* a decode_text has returned a text in which one token was replaced and
\* another, which no tier holds, is left as it was
FailOpenWitness ==
    \E t \in Threads :
        /\ ret[t].op = "decode_text"
        /\ ret[t].value # ret[t].text
        /\ UnknownToken \in SetOf(FindTokens(ret[t].value))

(***************************************************************************)
(* Properties of concurrent calls.                                         *)
(***************************************************************************)
\* thread t is in a put that goes to the file: before or inside _persist_token
InFilePut(t) == ~connected /\ (pc[t] = "put" \/ InPersist(t))

\* C9 (file-tier mutual exclusion): concurrent _persist_token calls complete
\* one after the other under the lock: a call in progress can take its next
\* step or waits for another thread that can; no two threads are in the
\* read-modify-write at once; the file keeps the mappings it had and gets
\* those of every finished call; and no reader reads a partly written file.
PersistSerialized ==
    /\ \A t, u \in Threads :
        (/\ t # u
         /\ InFilePut(t) /\ InFilePut(u)
         /\ frame[t].token # frame[u].token) =>
            \/ ENABLED Step(t)
            \/ _TOKEN_FILE_LOCK = u /\ ENABLED Step(u)
    /\ \A t, u \in Threads :
        (t # u /\ pc[t] \in {"persist_write", "persist_dump"}) =>
            pc[u] \notin {"load_read", "persist_write", "persist_dump"}
    /\ \A k \in DOMAIN boot.token_file.data : FileHolds(k)
    /\ \A t \in Threads :
        (frame[t].op = "encode_query" /\ ~connected) =>
            \A j \in 1..Len(frame[t].mappings) : FileHolds(frame[t].mappings[j].token)
    /\ \A t \in Threads : pc[t] = "load_read" => token_file.state # "partial"

\* C10 (detection strategy selected once): once _analyzer is the engine or
\* "fallback", no later step changes it, also when several threads make
\* their first call at the same time and their loads end differently.
AnalyzerSelectedOnce == [][_analyzer # None => _analyzer' = _analyzer]_vars

(***************************************************************************)
(* C11, C12: the detector's two fallbacks.                                 *)
(***************************************************************************)
\* thread t's detect_pii returns in this step (encode_query has the sorted
\* results next)
Detects(t) ==
    /\ pc[t] \in {"idle", "get_analyzer"}
    /\ pc'[t] = "store"
    /\ frame'[t].op = "encode_query"

\* the spans the engine returns for the text of thread t's call when analyze
\* does not raise
EngineSpans(f) ==
    {q.results : q \in {x \in Queries : x.text = f.text /\ x.regex = f.regex}}

\* C11: once loading the model-backed analyzer has failed (_analyzer is
\* "fallback"), the strategy stays "fallback" for the rest of the process, so
\* the load is never attempted again, and the call in which the load failed
\* and every later call return the regex detector's spans.
PermanentFallback ==
    [][/\ _analyzer = "fallback" => _analyzer' = "fallback"
       /\ \A t \in Threads :
            Detects(t) /\ (_analyzer = "fallback" \/ _analyzer' = "fallback")
                => frame'[t].results = SortByStartReverse(frame'[t].regex)]_vars

\* the analyzer thread t's detect_pii got from get_analyzer is the engine
UsesEngine(t) ==
    \/ pc[t] = "idle" /\ _analyzer = "engine"
    \/ pc[t] = "get_analyzer" /\ _analyzer' = "engine"

\* C12: when the analyzer is the loaded engine and analyze raises during a
\* detect_pii call, that call returns the regex detector's spans and the
\* strategy stays the engine; a call in which analyze does not raise returns
\* the engine's spans.
AnalyzeFailureLocal ==
    [][\A t \in Threads :
        Detects(t) /\ UsesEngine(t)
            => /\ _analyzer' = "engine"
               /\ frame'[t].raised
                    => frame'[t].results = SortByStartReverse(frame'[t].regex)
               /\ ~frame'[t].raised
                    => \E r \in EngineSpans(frame'[t]) :
                            frame'[t].results = SortByStartReverse(r)]_vars

\* a call fell back to the regex spans, which differ from the engine's, and
\* the strategy is still the engine
AnalyzeFailureLocalWitness ==
    \E t \in Threads :
        /\ pc[t] = "store"
        /\ frame[t].raised
        /\ _analyzer = "engine"
        /\ frame[t].results = SortByStartReverse(frame[t].regex)
        /\ frame[t].regex \notin EngineSpans(frame[t])

(***************************************************************************)
(* C13: token determinism.                                                 *)
(***************************************************************************)
\* the tokens emitted so far for the value v with the entity type ty: by the
\* calls that returned and by the earlier spans of the calls under way
Emitted(v, ty) ==
    UNION {{ret[u].mappings[i].token : i \in {k \in 1..Len(ret[u].mappings) :
                /\ ret[u].results[k].entity_type = ty
                /\ Slice(ret[u].text, ret[u].results[k].start,
                         ret[u].results[k].end) = v}}
           \cup {frame[u].mappings[i].token : i \in {k \in 1..Len(frame[u].mappings) :
                /\ frame[u].results[k].entity_type = ty
                /\ Slice(frame[u].text, frame[u].results[k].start,
                         frame[u].results[k].end) = v}} : u \in Threads}

\* C13: the token of a span is get_token_hash of its value and entity type
\* and nothing else, so encoding the same value with the same entity type
\* again, in the same call or a later one, yields the identical token; after
\* the store the in-process cache holds under that token one entry, whose
\* ciphertext decrypts to the value, and no other entry was added or removed.
TokenDeterminism ==
    [][\A t \in Threads :
        pc[t] = "store" /\ pc'[t] = "put"
            => LET res == frame[t].results[frame[t].i]
                   v == Slice(frame[t].text, res.start, res.end)
                   token == frame'[t].token
               IN  /\ token = get_token_hash(v, res.entity_type)
                   /\ \A x \in Emitted(v, res.entity_type) : x = token
                   /\ DOMAIN _token_store' = DOMAIN _token_store \cup {token}
                   /\ decrypts(_token_store'[token])
                   /\ decrypt_value(_token_store'[token]) = v
                   /\ \A k \in DOMAIN _token_store \ {token} :
                        _token_store'[k] = _token_store[k]]_vars

\* a value was encoded again by a later call: the token is the one an earlier
\* call returned, and the cache holds one entry, which decrypts to the value
TokenDeterminismWitness ==
    \E t, u \in Threads :
        /\ t # u
        /\ pc[t] = "put"
        /\ ret[u].op = "encode_query"
        /\ Len(ret[u].mappings) = 1
        /\ ret[u].mappings[1].token = frame[t].token
        /\ ret[u].text = frame[t].text
        /\ DOMAIN _token_store = {frame[t].token}
        /\ decrypt_value(_token_store[frame[t].token]) = frame[t].text
        /\ _token_store[frame[t].token] = frame[t].encrypted_val[1]

(***************************************************************************)
(* C14: token format.                                                      *)
(***************************************************************************)
\* "[", the entity type, "_", HashLen uppercase hexadecimal characters, "]"
TokenShaped(token, ty) ==
    /\ Len(token) = Len(ty) + HashLen + 3
    /\ token[1] = "["
    /\ SubSeq(token, 2, Len(ty) + 1) = ty
    /\ token[Len(ty) + 2] = "_"
    /\ \A k \in (Len(ty) + 3)..(Len(ty) + HashLen + 2) : token[k] \in HexChars
    /\ token[Len(token)] = "]"

\* C14: for every entity type a detector can return, the token of a value
\* has the shape "[" type "_" 8 uppercase hexadecimal characters "]" and the
\* decoder's pattern finds it; so has and is every token an encode_query
\* returned, which the pattern also finds in the encoded text when the spans
\* do not overlap.
TokenFormat ==
    /\ \A ty \in SetOf(PII_ENTITIES) :
            LET token == get_token_hash(SeedValue, ty)
            IN  TokenShaped(token, ty) /\ FindTokens(token) = <<token>>
    /\ \A t \in Threads : \A i \in 1..Len(ret[t].mappings) :
            LET m == ret[t].mappings[i]
            IN  /\ TokenShaped(m.token, m.entity_type)
                /\ FindTokens(m.token) = <<m.token>>
                /\ NonOverlapping(ret[t].results)
                        => m.token \in SetOf(FindTokens(ret[t].value))

\* an encode_query returned the tokens of two spans of different entity types
TokenFormatWitness ==
    \E t \in Threads :
        /\ ret[t].op = "encode_query"
        /\ Len(ret[t].mappings) = 2
        /\ NonOverlapping(ret[t].results)
        /\ ret[t].mappings[1].entity_type # ret[t].mappings[2].entity_type
        /\ SetOf(FindTokens(ret[t].value)) =
               {ret[t].mappings[1].token, ret[t].mappings[2].token}

(***************************************************************************)
(* C15: store before expose.                                               *)
(***************************************************************************)
\* the tokens a call has put into its output so far, and the tokens of the
\* output a call returned
Exposed(t) ==
    {frame[t].mappings[i].token : i \in 1..Len(frame[t].mappings)}
    \cup {ret[t].mappings[i].token : i \in 1..Len(ret[t].mappings)}

\* C15: in every interleaving, the mapping of a token is in the in-process
\* cache before the token is put into the output of an encode call, hence
\* before the call returns, and it is still there afterwards.
StoreBeforeExpose ==
    \A t \in Threads :
        /\ \A token \in Exposed(t) : Has(_token_store, token)
        /\ pc[t] = "put" \/ InPersist(t) => Has(_token_store, frame[t].token)

\* an encode_query returned a token while another call was under way, and
\* the in-process cache is the only tier holding its mapping
StoreBeforeExposeWitness ==
    \E t, u \in Threads :
        /\ t # u
        /\ ret[t].op = "encode_query"
        /\ pc[u] # "idle"
        /\ \E token \in Exposed(t) :
            /\ Has(_token_store, token)
            /\ ~Has(redis_pii, token)
            /\ ~FileHolds(token)

(***************************************************************************)
(* C16: encode_results, cell by cell.                                      *)
(***************************************************************************)
\* the loop of encode_query over the sorted results, from the i-th on
RECURSIVE EncodedFrom(_, _, _, _)
EncodedFrom(text, encoded_text, results, i) ==
    IF i > Len(results) THEN encoded_text
    ELSE LET res == results[i]
             token == get_token_hash(Slice(text, res.start, res.end),
                                     res.entity_type)
         IN  EncodedFrom(text, Substitute(encoded_text, res.start, res.end, token),
                         results, i + 1)

\* what encode_query returns for the string val alone
EncodedAlone(val) ==
    EncodedFrom(val, val, SortByStartReverse(QueryOf(val).results), 1)

\* C16: encode_results returns as many rows as it was given, each with as
\* many cells in the same order; a cell that is not a string, or a string
\* with no detected span, is returned unchanged; a string cell with spans is
\* what encode_query returns for that string alone, whatever the other cells.
TableShape ==
    \A t \in Threads :
        ret[t].op = "encode_results"
            => LET rows == ret[t].arg.rows
                   encoded_rows == ret[t].result.rows
               IN  /\ Len(encoded_rows) = Len(rows)
                   /\ \A r \in 1..Len(rows) :
                        /\ Len(encoded_rows[r].cells) = Len(rows[r].cells)
                        /\ \A c \in 1..Len(rows[r].cells) :
                            LET val == rows[r].cells[c]
                            IN  encoded_rows[r].cells[c] =
                                    IF ~val.str \/ QueryOf(val.val).results = << >>
                                    THEN val
                                    ELSE Cell(TRUE, EncodedAlone(val.val))

\* a table of two rows was returned with a cell that is not a string, a
\* string cell without spans and a cell in which two spans became tokens
TableShapeWitness ==
    \E t \in Threads :
        /\ ret[t].op = "encode_results"
        /\ Len(ret[t].result.rows) = 2
        /\ \E r, q \in 1..2 :
            /\ r # q
            /\ Len(ret[t].result.rows[r].cells) = 2
            /\ ret[t].result.rows[r].cells[1] = Number
            /\ Len(ret[t].result.rows[q].cells) = 2
            /\ ret[t].result.rows[q].cells[1] = Cell(TRUE, <<"c">>)
            /\ Len(FindTokens(ret[t].result.rows[q].cells[2].val)) = 2

(***************************************************************************)
(* C17, C18: decode_results.                                               *)
(***************************************************************************)
\* what decode_text returns for the string val: every token that resolves
\* and decrypts is replaced by its value
DecodedAlone(val) == ReplaceAll(val, Resolvable(val))

DecodedCells(cells) ==
    [c \in 1..Len(cells) |->
        IF cells[c].str THEN Cell(TRUE, DecodedAlone(cells[c].val)) ELSE cells[c]]

\* the shapes of result decode_results is to handle: a mapping with rows, a
\* list of rows whose first is a mapping, a list whose first is a sequence
Supported(result) ==
    \/ result.kind = "mapping"
    \/ result.kind = "list" /\ result.rows # << >>

\* C17: for every supported shape, whatever the types of the rows after the
\* first, decode_results raises no exception and returns the result with
\* decode_text applied to every string leaf: as many rows, each of the kind
\* it had with its keys, every string value decoded and every other value
\* and the other keys of a mapping as they were.
DecodeResultsTotal ==
    \A t \in Threads :
        ret[t].op = "decode_results" /\ Supported(ret[t].arg)
            => /\ ~ret[t].raised
               /\ ret[t].result.kind = ret[t].arg.kind
               /\ ret[t].result.columns = ret[t].arg.columns
               /\ Len(ret[t].result.rows) = Len(ret[t].arg.rows)
               /\ \A r \in 1..Len(ret[t].arg.rows) :
                    /\ ret[t].result.rows[r].keys = ret[t].arg.rows[r].keys
                    /\ ret[t].result.rows[r].cells =
                           DecodedCells(ret[t].arg.rows[r].cells)

\* no string cell of the table holds a token-shaped substring
TokenFree(result) ==
    \A r \in 1..Len(result.rows) : \A c \in 1..Len(result.rows[r].cells) :
        result.rows[r].cells[c].str => ~HasToken(result.rows[r].cells[c].val)

\* C18 (tabular round trip): when a table without token-shaped substrings
\* went through encode_results and the returned rows, alone or wrapped as a
\* columns/rows mapping, through decode_results, with the store intact, the
\* rows returned equal the original rows, cell for cell.
TableRoundTrip ==
    \A t \in Threads :
        (/\ ret[t].op = "decode_results"
         /\ ret[t].orig # << >>
         /\ TokenFree(ret[t].orig[1]))
        => /\ ~ret[t].raised
           /\ Len(ret[t].result.rows) = Len(ret[t].orig[1].rows)
           /\ \A r \in 1..Len(ret[t].orig[1].rows) :
                ret[t].result.rows[r].cells = ret[t].orig[1].rows[r].cells

(***************************************************************************)
(* C19: logout.                                                            *)
(***************************************************************************)
\* thread t's call of the method op returns in this step
Returns(t, op) == ncalls'[t] = ncalls[t] + 1 /\ ret'[t].op = op

\* C19 (logout): delete_token(token) on a connected RedisService whose
\* server answers removes the session key and returns True, so that
\* get_token_user(token) returns no user; when the service is unavailable or
\* the client fails it returns False.
Logout ==
    [][\A t \in Threads :
        /\ Returns(t, "delete_token")
            => IF connected /\ redis_up
               THEN /\ ~Has(redis_tokens', ret'[t].text)
                    /\ ret'[t].value = ReturnsTrue
               ELSE ret'[t].value = ReturnsFalse
        /\ Returns(t, "get_token_user") /\ ~Has(redis_tokens, ret'[t].text)
            => ret'[t].value = ReturnsNone]_vars

(***************************************************************************)
(* C20: decode_text replaces every occurrence, in any order of the tokens. *)
(***************************************************************************)
\* the tokens of the text a decode_text that returned resolved and decrypted
\* (one thread: _token_store holds what it found)
Decoded(t) == Resolvable(ret[t].text)

\* no decrypted value of a token of S contains a token-shaped substring
ValuesTokenFree(S) == \A k \in S : ~HasToken(decrypt_value(_token_store[k]))

\* whatever the order in which the tokens of S are replaced in text, a
\* replacement leaves the occurrences of all other tokens as they were: the
\* value put in forms no token with the characters around it
RECURSIVE Joinless(_, _)
Joinless(text, S) ==
    \A k \in S :
        LET replaced == StrReplace(text, k, decrypt_value(_token_store[k]))
        IN  /\ FindTokens(replaced) = SelectSeq(FindTokens(text), LAMBDA x : x # k)
            /\ Joinless(replaced, S \ {k})

\* C20: decode_text returns its text with all occurrences of each distinct
\* token that resolved and decrypted replaced by the value, the same result
\* for every order in which the tokens are processed, when no decrypted
\* value contains a token-shaped substring.
OrderIndependent ==
    \A t \in Threads :
        ret[t].op = "decode_text" /\ ValuesTokenFree(Decoded(t))
            => ret[t].value = ReplaceAll(ret[t].text, Decoded(t))

\* the same when, in addition, no decrypted value forms a token-shaped
\* substring with the characters around the token it replaces
OrderIndependentJoinless ==
    \A t \in Threads :
        (/\ ret[t].op = "decode_text"
         /\ ValuesTokenFree(Decoded(t))
         /\ Joinless(ret[t].text, Decoded(t)))
        => ret[t].value = ReplaceAll(ret[t].text, Decoded(t))

RegexScoreFixed ==
    \A t \in Threads : \A i \in DOMAIN frame[t].regex :
        frame[t].regex[i].score = RegexScore

RegexRecognizers ==
    /\ \A ty \in SetOf(PII_ENTITIES) : ty \in SetOf(RegexPatterns)
    /\ RegexScoreFixed

\* the regex detector's spans decided a call in progress
RegexScoreFixedWitness ==
    \E t \in Threads :
        /\ frame[t].op = "encode_query"
        /\ frame[t].regex # << >>
        /\ frame[t].results = SortByStartReverse(frame[t].regex)

(***************************************************************************)
(* C23: only ciphertext is stored: in every reachable state each value in  *)
(* _token_store, under the pii: keys and in the token file is an output of *)
(* encrypt_value (a value with the key it was encrypted under), never an   *)
(* original; and decode_text puts the original of a token into its output  *)
(* only when the token resolved (its ciphertext is then in _token_store)   *)
(* and the ciphertext decrypted.                                           *)
(***************************************************************************)
IsCiphertext(v) == v.key \in {KEY, STALE_KEY}

StoredEncrypted ==
    \A v \in Ciphertexts(_token_store) \cup Ciphertexts(redis_pii)
                \cup Ciphertexts(token_file.data) : IsCiphertext(v)

DecodesResolved(t) ==
    /\ frame[t].op = "decode_text"
    /\ frame'[t].op = "decode_text"
    /\ frame'[t].decoded_text # frame[t].decoded_text
    => \E token \in SetOf(FindTokens(frame[t].text)) :
            /\ Has(_token_store', token)
            /\ IsCiphertext(_token_store'[token])
            /\ decrypts(_token_store'[token])
            /\ frame'[t].decoded_text =
                    StrReplace(frame[t].decoded_text, token,
                               decrypt_value(_token_store'[token]))

CiphertextOnly ==
    /\ []StoredEncrypted
    /\ [][\A t \in Threads : DecodesResolved(t)]_vars

\* a decode_text returned a text with an original in it while every tier
\* held a value, one of them a ciphertext that does not decrypt
CiphertextOnlyWitness ==
    /\ \E t \in Threads : ret[t].op = "decode_text" /\ ret[t].value # ret[t].text
    /\ _token_store # EmptyMap
    /\ \E v \in Ciphertexts(token_file.data) : ~decrypts(v)

(***************************************************************************)
(* C24: for any spans the detector returns for a text, overlapping spans   *)
(* and spans of one range with different entity types included, every      *)
(* token of the mappings encode_query returns occurs whole in the text it  *)
(* returns, and no character of a detected span is left in that text:      *)
(* without the tokens of the mappings, the returned text is the text       *)
(* without its detected characters.                                        *)
(***************************************************************************)
Occurs(s, pat) == \E i \in 0..(Len(s) - Len(pat)) : OccursAt(s, pat, i)

\* the characters of text[k:] that no span covers (k 0-based)
RECURSIVE Uncovered(_, _, _)
Uncovered(text, results, k) ==
    IF k >= Len(text) THEN << >>
    ELSE (IF \E i \in DOMAIN results : results[i].start <= k /\ k < results[i].end
          THEN << >> ELSE <<text[k + 1]>>) \o Uncovered(text, results, k + 1)

\* the text without the occurrences of the tokens of S
RECURSIVE Without(_, _)
Without(text, S) ==
    IF S = {} THEN text
    ELSE LET k == CHOOSE x \in S : TRUE
         IN  Without(StrReplace(text, k, << >>), S \ {k})

MappedTokens(mappings) == {mappings[i].token : i \in DOMAIN mappings}

TokensIntactFor(r) ==
    /\ \A k \in MappedTokens(r.mappings) : Occurs(r.value, k)
    /\ Without(r.value, MappedTokens(r.mappings))
            = Without(Uncovered(r.text, r.results, 0), MappedTokens(r.mappings))

TokensIntact ==
    \A t \in Threads : ret[t].op = "encode_query" => TokensIntactFor(ret[t])

\* the same for spans that do not overlap
TokensIntactDisjoint ==
    \A t \in Threads :
        ret[t].op = "encode_query" /\ NonOverlapping(ret[t].results)
            => TokensIntactFor(ret[t])

(***************************************************************************)
(* C25: decode_text changes the store only by adding, to _token_store,     *)
(* entries for tokens that occur in the text it decodes: no step of a      *)
(* decode_text writes or deletes a pii: key or changes the token file, and *)
(* none changes or removes an entry _token_store already has or adds one   *)
(* for a token that does not occur in the text.                            *)
(***************************************************************************)
\* thread t takes a step of a decode_text
DecodeStep(t) ==
    /\ frame[t].op = "decode_text" \/ frame'[t].op = "decode_text"
    /\ frame'[t] # frame[t] \/ pc'[t] # pc[t]

DecodeTextOf(t) ==
    IF frame[t].op = "decode_text" THEN frame[t].text ELSE frame'[t].text

CacheOnlyGrows(t) ==
    /\ redis_pii' = redis_pii
    /\ token_file' = token_file
    /\ \A k \in DOMAIN _token_store :
            Has(_token_store', k) /\ _token_store'[k] = _token_store[k]
    /\ \A k \in DOMAIN _token_store' :
            ~Has(_token_store, k) => k \in SetOf(FindTokens(DecodeTextOf(t)))

DecodeAddsOnly == [][\A t \in Threads : DecodeStep(t) => CacheOnlyGrows(t)]_vars

(***************************************************************************)
(* Properties of the chat frontend.                                        *)
(***************************************************************************)
RECURSIVE AssistantMessages(_)
AssistantMessages(chats) ==
    IF chats = << >> THEN 0
    ELSE Len(SelectSeq(Head(chats).messages, LAMBDA m : m.role = "assistant"))
            + AssistantMessages(Tail(chats))

\* every assistant message stands directly after a question that is marked
\* handled, and every question marked handled has its answer directly after
OneReplyEach ==
    \A i \in DOMAIN session_state.chats :
        LET msgs == session_state.chats[i].messages
        IN  \A k \in DOMAIN msgs :
                /\ msgs[k].role = "assistant"
                    => k > 1 /\ msgs[k - 1].role = "user" /\ msgs[k - 1].handled
                /\ msgs[k].role = "user" /\ msgs[k].handled
                    => k < Len(msgs) /\ msgs[k + 1].role = "assistant"

\* a step that adds an assistant message adds one, to the active chat whose
\* last message is a question not handled, and marks that question handled
RepliesToPending ==
    AssistantMessages(session_state'.chats) > AssistantMessages(session_state.chats)
    => LET a == get_active_chat(session_state)
           msgs == active_messages(session_state)
           n == Len(msgs)
       IN  /\ a # 0
           /\ n > 0
           /\ msgs[n].role = "user"
           /\ ~msgs[n].handled
           /\ \E content \in {"answer", "No response received.", "Please login first",
                               "I encountered an error processing your request."} :
                session_state'.chats =
                    [session_state.chats EXCEPT ![a].messages =
                        Append([msgs EXCEPT ![n].handled = TRUE],
                               Message("assistant", content, FALSE))]

\* C26: a pending user message (the last message, of the user, not handled)
\* is answered at most once: the run that answers it appends exactly one
\* assistant message directly after it and marks it handled in the same
\* step, so that in every state each question has at most one answer.
AnsweredOnce == []OneReplyEach /\ [][RepliesToPending]_vars

\* the backend answered a question, the script ran again and came to rest
AnsweredOnceWitness ==
    /\ run.pc = "idle"
    /\ ~session_state.is_processing
    /\ \E i \in DOMAIN session_state.chats :
        LET msgs == session_state.chats[i].messages
        IN  /\ Len(msgs) >= 2
            /\ msgs[Len(msgs)].role = "assistant"
            /\ msgs[Len(msgs)].content = "answer"
            /\ msgs[Len(msgs) - 1].handled

\* some chat ends in a question that is not marked handled
Unanswered ==
    \E i \in DOMAIN session_state.chats :
        LET msgs == session_state.chats[i].messages
        IN  msgs # << >> /\ msgs[Len(msgs)].role = "user" /\ ~msgs[Len(msgs)].handled

\* C27: whenever is_processing is True it is False again later, whatever
\* the streaming request and the fallback request come to (events, an error
\* event, an empty stream, a failing fallback): the chat input does not
\* stay disabled for ever, and a question that is not answered is answered
\* later.
ProcessingEnds ==
    /\ session_state.is_processing ~> ~session_state.is_processing
    /\ Unanswered ~> ~Unanswered

\* the same unless the run ended while is_processing was True
ProcessingEndsOrAborted ==
    session_state.is_processing
        ~> (~session_state.is_processing \/ run.pc = "idle")

\* the script is at rest with is_processing True
Stuck == run.pc = "idle" /\ session_state.is_processing

\* whatever is clicked then, is_processing stays True
StuckForEver == [](Stuck => []session_state.is_processing)

\* where main reads the active chat there is a chat and the active id is
\* the id of one
ActiveChatExists ==
    run.pc = "read"
        => /\ session_state.chats # << >>
           /\ get_active_chat(session_state) # 0

\* the chats without the one at position a
WithoutChat(chats, a) ==
    [i \in 1..(Len(chats) - 1) |-> chats[IF i < a THEN i ELSE i + 1]]

\* the step removes the active chat and no other; when that was the only
\* chat, a new chat without messages takes its place
DeletesActiveOnly ==
    LET chats == session_state.chats
        a == get_active_chat(session_state)
    IN  /\ a # 0
        /\ IF Len(chats) = 1
           THEN \E chat_id \in ChatIds :
                    /\ session_state'.chats = <<_new_chat(chat_id)>>
                    /\ session_state'.active_chat_id = chat_id
           ELSE /\ session_state'.chats = WithoutChat(chats, a)
                /\ \E i \in DOMAIN session_state'.chats :
                        session_state'.chats[i].id = session_state'.active_chat_id

DistinctIds(chats) ==
    \A i, j \in DOMAIN chats : chats[i].id = chats[j].id => i = j

\* C28: after any sequence of New Chat, select-chat and Delete Current Chat
\* actions, where main reads the active chat the list of chats is not empty
\* and active_chat_id is the id of a chat of the list; Delete Current Chat
\* removes exactly the active chat and, when it was the only one, puts a
\* new empty chat in its place.
ActiveChatKept ==
    /\ []ActiveChatExists
    /\ [][delete_current_chat => DeletesActiveOnly]_vars

\* the same for chats whose ids differ
ActiveChatKeptDistinct ==
    /\ []ActiveChatExists
    /\ [][delete_current_chat /\ DistinctIds(session_state.chats)
            => DeletesActiveOnly]_vars

====
